---- MODULE Spec2Model ----
(***************************************************************************)
(* A model of tripcode-rs: the radix-64 codecs of src/src/hash/mod.rs, the *)
(* generators and format dispatchers of src/src/lib.rs and the helpers of  *)
(* src/lib/src/util.rs.                                                    *)
(*                                                                         *)
(* Machine words are sequences of bits, most significant bit first: a u64  *)
(* is a sequence of 64 bits, a u32 of 32 bits, a u8 of 8 bits.  Shifts     *)
(* drop the bits that leave the word, as Rust's << and >> do on unsigned   *)
(* integers.  Texts and passwords are sequences of bytes (0..255).         *)
(***************************************************************************)
EXTENDS Integers, Sequences, FiniteSets, TLC

VARIABLES
    ty,       \* the hash type or generator the current operation belongs to
    stage,    \* position of the current experiment
    enc,      \* "utf8" or "sjis": which encode/decode pair is exercised
    hashv,    \* the hash value at hand; the word decode_salt returned; the
              \* bool sc_password_starts_with_katakana returned
    text,     \* the text at hand; for a generator, the sink it writes to
    decoded,  \* Option<hash>: result of the last decode or try_hash; the
              \* Option<u32> decode_salt_strict returned
    outs,     \* the outputs of the different output paths of one hash value;
              \* in a sequence of appends, the tripcodes of the calls so far
    password, \* the password at hand; the pair of salt characters
    dst,      \* a String / Vec<u8>: [bytes, cap]
    expected  \* ghost: the buffer as it was before the append(s)

vars == <<ty, stage, enc, hashv, text, decoded, outs, password, dst, expected>>

-----------------------------------------------------------------------------
(* Bounds of the model.                                                    *)

\* how many of the sample 6-bit group values are used to build hash values
NumVals == 4
\* how many of the sample bytes are used to build texts
NumChars == 5

-----------------------------------------------------------------------------
(* Option<T>.                                                              *)

None == <<>>
Some(x) == <<x>>
IsSome(o) == Len(o) = 1
Unwrap(o) == o[1]

-----------------------------------------------------------------------------
(* Unsigned machine words.                                                 *)

Pow2(n) == 2 ^ n

\* a sequence given as a function, as the tuple of its elements
Tuple(f) == f \o <<>>

\* the word of width w whose value is v (v < 2^31)
FromNat(v, w) ==
    Tuple([i \in 1..w |-> IF w - i >= 31 THEN 0 ELSE (v \div Pow2(w - i)) % 2])

\* the value of a word all of whose bits above bit 30 are zero
RECURSIVE AsNatFrom(_, _)
AsNatFrom(x, i) ==
    IF i > Len(x) THEN 0
    ELSE (IF x[i] = 1 THEN Pow2(Len(x) - i) ELSE 0) + AsNatFrom(x, i + 1)
AsNat(x) == AsNatFrom(x, 1)

\* x << n and x >> n on an unsigned word
ShlW(x, n) ==
    LET w == Len(x) IN Tuple([i \in 1..w |-> IF i + n <= w THEN x[i + n] ELSE 0])
ShrW(x, n) ==
    LET w == Len(x) IN Tuple([i \in 1..w |-> IF i - n >= 1 THEN x[i - n] ELSE 0])
OrW(x, y) ==
    Tuple([i \in 1..Len(x) |-> IF x[i] = 1 \/ y[i] = 1 THEN 1 ELSE 0])
AndW(x, y) ==
    Tuple([i \in 1..Len(x) |-> IF x[i] = 1 /\ y[i] = 1 THEN 1 ELSE 0])

\* `x as uN`: zero-extension or truncation to the low w bits
CastW(x, w) ==
    LET n == Len(x)
    IN Tuple([i \in 1..w |-> IF n - w + i >= 1 THEN x[n - w + i] ELSE 0])

-----------------------------------------------------------------------------
(* The alphabets of hash::enc_dec.  An encoder maps 0..63 to a byte (or,   *)
(* for the UTF-8 katakana alphabet, to a short byte string); a decoder     *)
(* maps a byte to 0..63, or to 0x40 for a byte outside the alphabet.       *)

Digits == [i \in 1..10 |-> 47 + i]
Upper == [i \in 1..26 |-> 64 + i]
Lower == [i \in 1..26 |-> 96 + i]

\* ./0-9A-Za-z
CryptAlphabet == <<46, 47>> \o Digits \o Upper \o Lower
\* A-Za-z0-9+/
Base64Alphabet == Upper \o Lower \o Digits \o <<43, 47>>
\* A-Za-z0-9.!
Sc15Alphabet == Upper \o Lower \o Digits \o <<46, 33>>

InvalidDigit == 64

DecodeWith(alphabet, c) ==
    IF \E i \in 1..64 : alphabet[i] = c
    THEN (CHOOSE i \in 1..64 : alphabet[i] = c) - 1
    ELSE InvalidDigit

Crypt_encode(i) == CryptAlphabet[i + 1]
Crypt_decode(c) == DecodeWith(CryptAlphabet, c)

\* the last character of a 10-character tripcode carries 4 bits: only the
\* sixteen characters whose index is a multiple of 4 are in its alphabet
CryptLastChar_decode(c) ==
    LET d == Crypt_decode(c) IN IF d % 4 = 0 THEN d ELSE InvalidDigit

Base64_encode(i) == Base64Alphabet[i + 1]
Base64_decode(c) == DecodeWith(Base64Alphabet, c)

Sc15_encode(i) == Sc15Alphabet[i + 1]
Sc15_decode(c) == DecodeWith(Sc15Alphabet, c)

\* half-width katakana in Shift-JIS are the single bytes 0xA1..0xDF; the
\* index order is that of SC_KATAKANA_DECODING_EFBD / _EFBE, and 0x3F is '!'
ScSjisKatakana_encode(i) ==
    IF i <= 20 THEN 171 + i
    ELSE IF i <= 51 THEN 192 + (i - 21)
    ELSE IF i <= 61 THEN 161 + (i - 52)
    ELSE IF i = 62 THEN 223
    ELSE 33
ScSjisKatakana_decode(c) ==
    IF \E i \in 0..63 : ScSjisKatakana_encode(i) = c
    THEN CHOOSE i \in 0..63 : ScSjisKatakana_encode(i) = c
    ELSE InvalidDigit

\* the same symbols in UTF-8: EF BD A1..BF and EF BE 80..9F, and "!"
ScKatakana_encode(i) ==
    IF i <= 20 THEN <<239, 189, 171 + i>>
    ELSE IF i <= 51 THEN <<239, 190, 128 + (i - 21)>>
    ELSE IF i <= 61 THEN <<239, 189, 161 + (i - 52)>>
    ELSE IF i = 62 THEN <<239, 190, 159>>
    ELSE <<33>>

\* try_dec!: the digit, or the early return None
ValidDigit(d) == d >= 0 /\ d <= 63


\* SC_KATAKANA_DECODING_EFBD: third byte after EF BD -> digit
SC_KATAKANA_DECODING_EFBD(b) ==
    IF b >= 161 /\ b <= 170 THEN 52 + (b - 161)
    ELSE IF b >= 171 /\ b <= 191 THEN b - 171
    ELSE InvalidDigit

\* SC_KATAKANA_DECODING_EFBE: third byte after EF BE -> digit
SC_KATAKANA_DECODING_EFBE(b) ==
    IF b >= 128 /\ b <= 158 THEN 21 + (b - 128)
    ELSE IF b = 159 THEN 62
    ELSE InvalidDigit

-----------------------------------------------------------------------------
(* Vec<u8> / String: the bytes and the capacity.                           *)

Max(a, b) == IF a >= b THEN a ELSE b

Vec_with_capacity(n) == [bytes |-> <<>>, cap |-> n]

\* reserve(additional): nothing when the spare capacity suffices, amortised
\* growth otherwise
Vec_reserve(v, additional) ==
    IF v.cap - Len(v.bytes) >= additional THEN v
    ELSE [v EXCEPT !.cap = Max(8, Max(2 * v.cap, Len(v.bytes) + additional))]

Vec_extend_from_slice(v, s) ==
    [bytes |-> v.bytes \o s, cap |-> Vec_reserve(v, Len(s)).cap]

\* reserve(n); set_len(len + n); then every new slot i (0-based, counted from
\* index `from`) is written with slot[i]
Vec_reserve_and_fill(v, n, from, slot) ==
    LET r == Vec_reserve(v, n)
        len == Len(v.bytes)
    IN [bytes |-> Tuple([i \in 1..(len + n) |->
                     IF i > from /\ i - from <= n THEN slot[i - from - 1]
                     ELSE IF i <= len THEN v.bytes[i] ELSE 0]),
        cap |-> r.cap]

\* a Write sink that accepts everything: write_all appends
Sink_write_all(sink, buf) == sink \o buf

Question3 == <<63, 63, 63>>

-----------------------------------------------------------------------------
(* Hash values.                                                            *)

FourchanHash(a) == [t |-> "FourchanHash", a |-> a]
Mona12Hash(a, b) == [t |-> "Mona12Hash", a |-> a, b |-> b]
Sc15Hash(a, b) == [t |-> "Sc15Hash", a |-> a, b |-> b]
ScKatakanaHash(h) == [t |-> "ScKatakanaHash", h |-> h]
Ten(h) == [t |-> "Ten", h |-> h]
Twelve(h) == [t |-> "Twelve", h |-> h]
Fifteen(h) == [t |-> "Fifteen", h |-> h]
Katakana(h) == [t |-> "Katakana", h |-> h]
Error == [t |-> "Error"]

-----------------------------------------------------------------------------
(* Decoding loops.  ds is the sequence of digits of the characters; a      *)
(* digit outside 0..0x3F makes try_dec! return None.                       *)

\* for c in ..: ret |= try_dec!(d); ret <<= 6
RECURSIVE OrShiftLoop(_, _, _, _)
OrShiftLoop(ds, i, n, ret) ==
    IF i > n THEN Some(ret)
    ELSE IF ~ValidDigit(ds[i]) THEN None
    ELSE OrShiftLoop(ds, i + 1, n, ShlW(OrW(ret, FromNat(ds[i], Len(ret))), 6))

\* for c in ..: ret <<= 6; ret |= try_dec!(d)
RECURSIVE ShiftOrLoop(_, _, _, _)
ShiftOrLoop(ds, i, n, ret) ==
    IF i > n THEN Some(ret)
    ELSE IF ~ValidDigit(ds[i]) THEN None
    ELSE ShiftOrLoop(ds, i + 1, n, OrW(ShlW(ret, 6), FromNat(ds[i], Len(ret))))

\* the value of `(w >> (width - 6)) as usize` after k rounds of `w <<= 6`
TopAfter(w, k) == AsNat(ShrW(ShlW(w, 6 * k), Len(w) - 6))

-----------------------------------------------------------------------------
(* FourchanHash (= Mona10Hash): 58 bits, 10 characters.                    *)


\* FourchanHash::decode_from_ascii shifting the last character by 6 like the
\* nine before it
FourchanHash_decode_last_shift_6(tripcode) ==
    IF Len(tripcode) # 10 THEN None
    ELSE LET head == OrShiftLoop([i \in 1..9 |-> Crypt_decode(tripcode[i])],
                                 1, 9, FromNat(0, 64))
             last == CryptLastChar_decode(tripcode[10])
         IN IF head = None \/ ~ValidDigit(last) THEN None
            ELSE Some(FourchanHash(
                     ShlW(OrW(Unwrap(head), FromNat(last, 64)), 6)))

FourchanHash_decode_from_ascii(tripcode) ==
    IF Len(tripcode) # 10 THEN None
    ELSE LET head == OrShiftLoop([i \in 1..9 |-> Crypt_decode(tripcode[i])],
                                 1, 9, FromNat(0, 64))
             last == CryptLastChar_decode(tripcode[10])
         IN IF head = None \/ ~ValidDigit(last) THEN None
            ELSE Some(FourchanHash(
                     ShlW(OrW(Unwrap(head), FromNat(last, 64)), 4)))

\* FourchanHash::append_ascii reserving 16 bytes for its 10 characters
FourchanHash_append_ascii_reserve_16(self, v) ==
    Vec_reserve_and_fill(Vec_reserve(v, 16), 10, Len(v.bytes),
                         [i \in 0..9 |-> Crypt_encode(TopAfter(self.a, i))])

FourchanHash_append_ascii(self, v) ==
    Vec_reserve_and_fill(v, 10, Len(v.bytes),
                         [i \in 0..9 |-> Crypt_encode(TopAfter(self.a, i))])

FourchanHash_write_ascii(self, sink) ==
    Sink_write_all(sink, [i \in 1..10 |-> Crypt_encode(TopAfter(self.a, i - 1))])

-----------------------------------------------------------------------------
(* Mona12Hash: 64 + 8 bits, 12 characters.                                 *)


\* encode_mona_12_main! without the two bits of hash.1 in the eleventh
\* character
encode_mona_12_main_without_byte(hash, i) ==
    IF i < 10 THEN Base64_encode(TopAfter(hash.a, i))
    ELSE IF i = 10
    THEN Base64_encode(AsNat(ShrW(ShlW(hash.a, 60), 58)))
    ELSE Base64_encode(AsNat(AndW(hash.b, FromNat(63, 8))))

\* encode_mona_12_main!: character i (0-based) of the 12
encode_mona_12_main(hash, i) ==
    IF i < 10 THEN Base64_encode(TopAfter(hash.a, i))
    ELSE IF i = 10
    THEN Base64_encode(AsNat(OrW(ShrW(ShlW(hash.a, 60), 58),
                                 ShrW(CastW(hash.b, 64), 6))))
    ELSE Base64_encode(AsNat(AndW(hash.b, FromNat(63, 8))))

Mona12Hash_decode_from_ascii(tripcode) ==
    IF Len(tripcode) # 12 THEN None
    ELSE LET head == ShiftOrLoop([i \in 1..10 |-> Base64_decode(tripcode[i])],
                                 1, 10, FromNat(0, 64))
             d11 == Base64_decode(tripcode[11])
             d12 == Base64_decode(tripcode[12])
         IN IF head = None \/ ~ValidDigit(d11) \/ ~ValidDigit(d12) THEN None
            ELSE Some(Mona12Hash(
                     OrW(ShlW(Unwrap(head), 4), ShrW(FromNat(d11, 64), 2)),
                     CastW(OrW(ShlW(FromNat(d11, 64), 6), FromNat(d12, 64)), 8)))

\* Mona12Hash::append_ascii writing from the start of the buffer
Mona12Hash_append_ascii_from_start(self, v) ==
    Vec_reserve_and_fill(v, 12, 0,
                         [i \in 0..11 |-> encode_mona_12_main(self, i)])

Mona12Hash_append_ascii(self, v) ==
    Vec_reserve_and_fill(v, 12, Len(v.bytes),
                         [i \in 0..11 |-> encode_mona_12_main(self, i)])

Mona12Hash_write_ascii(self, sink) ==
    Sink_write_all(sink, [i \in 1..12 |-> encode_mona_12_main(self, i - 1)])

-----------------------------------------------------------------------------
(* MonaHash: Ten | Twelve | Error.                                         *)


\* MonaHash::decode_from_ascii taking every 3-byte text for "???"
MonaHash_decode_any_3_bytes(tripcode) ==
    CASE Len(tripcode) = 10 ->
           LET r == FourchanHash_decode_from_ascii(tripcode)
           IN IF IsSome(r) THEN Some(Ten(Unwrap(r))) ELSE None
      [] Len(tripcode) = 12 ->
           LET r == Mona12Hash_decode_from_ascii(tripcode)
           IN IF IsSome(r) THEN Some(Twelve(Unwrap(r))) ELSE None
      [] Len(tripcode) = 3 -> Some(Error)
      [] OTHER -> None

MonaHash_decode_from_ascii(tripcode) ==
    CASE Len(tripcode) = 10 ->
           LET r == FourchanHash_decode_from_ascii(tripcode)
           IN IF IsSome(r) THEN Some(Ten(Unwrap(r))) ELSE None
      [] Len(tripcode) = 12 ->
           LET r == Mona12Hash_decode_from_ascii(tripcode)
           IN IF IsSome(r) THEN Some(Twelve(Unwrap(r))) ELSE None
      [] Len(tripcode) = 3 ->
           IF tripcode = Question3 THEN Some(Error) ELSE None
      [] OTHER -> None

MonaHash_append_ascii(self, v) ==
    CASE self.t = "Twelve" -> Mona12Hash_append_ascii(self.h, v)
      [] self.t = "Ten" -> FourchanHash_append_ascii(self.h, v)
      [] self.t = "Error" -> Vec_extend_from_slice(v, Question3)

\* MonaHash::write_ascii writing nothing for Error
MonaHash_write_ascii_error_empty(self, sink) ==
    CASE self.t = "Twelve" -> Mona12Hash_write_ascii(self.h, sink)
      [] self.t = "Ten" -> FourchanHash_write_ascii(self.h, sink)
      [] self.t = "Error" -> sink

MonaHash_write_ascii(self, sink) ==
    CASE self.t = "Twelve" -> Mona12Hash_write_ascii(self.h, sink)
      [] self.t = "Ten" -> FourchanHash_write_ascii(self.h, sink)
      [] self.t = "Error" -> Sink_write_all(sink, Question3)


-----------------------------------------------------------------------------
(* Sc15Hash and ScKatakanaHash: 60 + 30 bits, 15 symbols.                  *)

Encoder(E, i) ==
    CASE E = "Sc15" -> Sc15_encode(i)
      [] E = "ScSjisKatakana" -> ScSjisKatakana_encode(i)

Decoder(D, c) ==
    CASE D = "Sc15" -> Sc15_decode(c)
      [] D = "ScSjisKatakana" -> ScSjisKatakana_decode(c)

\* encode_sc_sha1_main!: character i (0-based) of the 15
encode_sc_sha1_main(encoder, hash, i) ==
    IF i < 10 THEN Encoder(encoder, TopAfter(hash.a, i))
    ELSE Encoder(encoder, TopAfter(hash.b, i - 10))

decode_sc_sha1_internal(D, tripcode, wrapper) ==
    IF Len(tripcode) # 15 THEN None
    ELSE LET a == ShiftOrLoop([i \in 1..10 |-> Decoder(D, tripcode[i])],
                              1, 10, FromNat(0, 64))
             b == ShiftOrLoop([i \in 1..5 |-> Decoder(D, tripcode[10 + i])],
                              1, 5, FromNat(0, 32))
         IN IF a = None \/ b = None THEN None
            ELSE LET h == Sc15Hash(ShlW(Unwrap(a), 4), ShlW(Unwrap(b), 2))
                 IN Some(IF wrapper = "ScKatakanaHash" THEN ScKatakanaHash(h)
                         ELSE h)

Sc15Hash_decode_from_ascii(tripcode) ==
    decode_sc_sha1_internal("Sc15", tripcode, "Sc15Hash")

Sc15Hash_append_ascii(self, v) ==
    Vec_reserve_and_fill(v, 15, Len(v.bytes),
                         [i \in 0..14 |-> encode_sc_sha1_main("Sc15", self, i)])

Sc15Hash_write_ascii(self, sink) ==
    Sink_write_all(sink, [i \in 1..15 |-> encode_sc_sha1_main("Sc15", self, i - 1)])

\* try_dec_kana!: the digit of the symbol at position pos and the position
\* after it, or None
try_dec_kana(bytes, pos) ==
    IF pos > Len(bytes) THEN None
    ELSE IF bytes[pos] = 239
    THEN IF pos + 2 > Len(bytes) THEN None
         ELSE LET d == CASE bytes[pos + 1] = 189 ->
                              SC_KATAKANA_DECODING_EFBD(bytes[pos + 2])
                         [] bytes[pos + 1] = 190 ->
                              SC_KATAKANA_DECODING_EFBE(bytes[pos + 2])
                         [] OTHER -> InvalidDigit
              IN IF ValidDigit(d) THEN Some(<<d, pos + 3>>) ELSE None
    ELSE IF bytes[pos] = 33 THEN Some(<<63, pos + 1>>)
    ELSE None

\* for _ in 0..n: ret <<= 6; ret |= try_dec_kana!(iter)
RECURSIVE KanaLoop(_, _, _, _)
KanaLoop(bytes, pos, n, ret) ==
    IF n = 0 THEN Some(<<ret, pos>>)
    ELSE LET r == try_dec_kana(bytes, pos)
         IN IF r = None THEN None
            ELSE KanaLoop(bytes, Unwrap(r)[2], n - 1,
                          OrW(ShlW(ret, 6), FromNat(Unwrap(r)[1], Len(ret))))

\* ScKatakanaHash::decode without the test for the end of the input
ScKatakanaHash_decode_trailing_ok(tripcode) ==
    LET a == KanaLoop(tripcode, 1, 10, FromNat(0, 64))
    IN IF a = None THEN None
       ELSE LET b == KanaLoop(tripcode, Unwrap(a)[2], 5, FromNat(0, 32))
            IN IF b = None THEN None
               ELSE Some(ScKatakanaHash(Sc15Hash(ShlW(Unwrap(a)[1], 4),
                                                 ShlW(Unwrap(b)[1], 2))))

ScKatakanaHash_decode(tripcode) ==
    LET a == KanaLoop(tripcode, 1, 10, FromNat(0, 64))
    IN IF a = None THEN None
       ELSE LET b == KanaLoop(tripcode, Unwrap(a)[2], 5, FromNat(0, 32))
            IN IF b = None THEN None
               ELSE IF Unwrap(b)[2] <= Len(tripcode) THEN None
               ELSE Some(ScKatakanaHash(Sc15Hash(ShlW(Unwrap(a)[1], 4),
                                                 ShlW(Unwrap(b)[1], 2))))

\* the 6-bit group that round i (0-based) of the two encoding loops reads
KanaGroup(self, i) ==
    IF i < 10 THEN TopAfter(self.h.a, i) ELSE TopAfter(self.h.b, i - 10)

RECURSIVE KanaAppendFrom(_, _, _)
KanaAppendFrom(self, i, v) ==
    IF i = 15 THEN v
    ELSE KanaAppendFrom(self, i + 1,
             Vec_extend_from_slice(v, ScKatakana_encode(KanaGroup(self, i))))

ScKatakanaHash_append(self, v) == KanaAppendFrom(self, 0, v)

RECURSIVE KanaWriteFrom(_, _, _)
KanaWriteFrom(self, i, sink) ==
    IF i = 15 THEN sink
    ELSE KanaWriteFrom(self, i + 1,
             Sink_write_all(sink, ScKatakana_encode(KanaGroup(self, i))))

ScKatakanaHash_write(self, sink) == KanaWriteFrom(self, 0, sink)

ScKatakanaHash_decode_from_sjis(tripcode) ==
    decode_sc_sha1_internal("ScSjisKatakana", tripcode, "ScKatakanaHash")

ScKatakanaHash_append_sjis(self, v) ==
    Vec_reserve_and_fill(v, 15, Len(v.bytes),
        [i \in 0..14 |-> encode_sc_sha1_main("ScSjisKatakana", self.h, i)])

ScKatakanaHash_write_sjis(self, sink) ==
    Sink_write_all(sink,
        [i \in 1..15 |-> encode_sc_sha1_main("ScSjisKatakana", self.h, i - 1)])

-----------------------------------------------------------------------------
(* The provided methods of AsciiTripcodeHash and TripcodeHash.             *)

\* AsciiTripcodeHash::encode_to_ascii as provided by the trait
Default_encode_to_ascii(T, self) ==
    CASE T = "FourchanHash" ->
           FourchanHash_append_ascii(self, Vec_with_capacity(10)).bytes
      [] T = "Mona12Hash" ->
           Mona12Hash_append_ascii(self, Vec_with_capacity(12)).bytes
      [] T = "Sc15Hash" ->
           Sc15Hash_append_ascii(self, Vec_with_capacity(15)).bytes

MonaHash_encode_to_ascii(self) ==
    CASE self.t = "Ten" -> Default_encode_to_ascii("FourchanHash", self.h)
      [] self.t = "Twelve" -> Default_encode_to_ascii("Mona12Hash", self.h)
      [] self.t = "Error" -> Question3

\* TripcodeHash::encode / encode_to_sjis as provided by the trait
ScKatakanaHash_encode(self) ==
    ScKatakanaHash_append(self, Vec_with_capacity(45)).bytes

ScKatakanaHash_encode_to_sjis(self) ==
    ScKatakanaHash_append_sjis(self, Vec_with_capacity(15)).bytes

-----------------------------------------------------------------------------
(* ScHash: Ten | Twelve | Fifteen | Katakana | Error.                      *)

MapOption(o, variant) ==
    IF IsSome(o) THEN Some([t |-> variant, h |-> Unwrap(o)]) ELSE None

ScHash_decode(tripcode) ==
    CASE Len(tripcode) = 10 ->
           MapOption(FourchanHash_decode_from_ascii(tripcode), "Ten")
      [] Len(tripcode) = 12 ->
           MapOption(Mona12Hash_decode_from_ascii(tripcode), "Twelve")
      [] Len(tripcode) = 15 ->
           MapOption(Sc15Hash_decode_from_ascii(tripcode), "Fifteen")
      [] Len(tripcode) = 3 ->
           IF tripcode = Question3 THEN Some(Error) ELSE None
      [] Len(tripcode) >= 17 ->
           MapOption(ScKatakanaHash_decode(tripcode), "Katakana")
      [] OTHER -> None

ScHash_append(self, v) ==
    CASE self.t = "Ten" -> FourchanHash_append_ascii(self.h, v)
      [] self.t = "Twelve" -> Mona12Hash_append_ascii(self.h, v)
      [] self.t = "Fifteen" -> Sc15Hash_append_ascii(self.h, v)
      [] self.t = "Katakana" -> ScKatakanaHash_append(self.h, v)
      [] self.t = "Error" -> Vec_extend_from_slice(v, Question3)

ScHash_write(self, sink) ==
    CASE self.t = "Ten" -> FourchanHash_write_ascii(self.h, sink)
      [] self.t = "Twelve" -> Mona12Hash_write_ascii(self.h, sink)
      [] self.t = "Fifteen" -> Sc15Hash_write_ascii(self.h, sink)
      [] self.t = "Katakana" -> ScKatakanaHash_write(self.h, sink)
      [] self.t = "Error" -> Sink_write_all(sink, Question3)


\* ScHash::decode_from_sjis without the or_else that tries the katakana
\* alphabet
ScHash_decode_from_sjis_ascii_only(tripcode) ==
    CASE Len(tripcode) = 10 ->
           MapOption(FourchanHash_decode_from_ascii(tripcode), "Ten")
      [] Len(tripcode) = 12 ->
           MapOption(Mona12Hash_decode_from_ascii(tripcode), "Twelve")
      [] Len(tripcode) = 15 ->
           MapOption(Sc15Hash_decode_from_ascii(tripcode), "Fifteen")
      [] Len(tripcode) = 3 ->
           IF tripcode = Question3 THEN Some(Error) ELSE None
      [] OTHER -> None

ScHash_decode_from_sjis(tripcode) ==
    CASE Len(tripcode) = 10 ->
           MapOption(FourchanHash_decode_from_ascii(tripcode), "Ten")
      [] Len(tripcode) = 12 ->
           MapOption(Mona12Hash_decode_from_ascii(tripcode), "Twelve")
      [] Len(tripcode) = 15 ->
           LET f == MapOption(Sc15Hash_decode_from_ascii(tripcode), "Fifteen")
           IN IF IsSome(f) THEN f
              ELSE MapOption(ScKatakanaHash_decode_from_sjis(tripcode), "Katakana")
      [] Len(tripcode) = 3 ->
           IF tripcode = Question3 THEN Some(Error) ELSE None
      [] OTHER -> None

ScHash_append_sjis(self, v) ==
    CASE self.t = "Ten" -> FourchanHash_append_ascii(self.h, v)
      [] self.t = "Twelve" -> Mona12Hash_append_ascii(self.h, v)
      [] self.t = "Fifteen" -> Sc15Hash_append_ascii(self.h, v)
      [] self.t = "Katakana" -> ScKatakanaHash_append_sjis(self.h, v)
      [] self.t = "Error" -> Vec_extend_from_slice(v, Question3)

ScHash_write_sjis(self, sink) ==
    CASE self.t = "Ten" -> FourchanHash_write_ascii(self.h, sink)
      [] self.t = "Twelve" -> Mona12Hash_write_ascii(self.h, sink)
      [] self.t = "Fifteen" -> Sc15Hash_write_ascii(self.h, sink)
      [] self.t = "Katakana" -> ScKatakanaHash_write_sjis(self.h, sink)
      [] self.t = "Error" -> Sink_write_all(sink, Question3)

ScHash_encode(self) ==
    CASE self.t = "Ten" -> Default_encode_to_ascii("FourchanHash", self.h)
      [] self.t = "Twelve" -> Default_encode_to_ascii("Mona12Hash", self.h)
      [] self.t = "Fifteen" -> Default_encode_to_ascii("Sc15Hash", self.h)
      [] self.t = "Katakana" -> ScKatakanaHash_encode(self.h)
      [] self.t = "Error" -> Question3

ScHash_encode_to_sjis(self) ==
    CASE self.t = "Ten" -> Default_encode_to_ascii("FourchanHash", self.h)
      [] self.t = "Twelve" -> Default_encode_to_ascii("Mona12Hash", self.h)
      [] self.t = "Fifteen" -> Default_encode_to_ascii("Sc15Hash", self.h)
      [] self.t = "Katakana" -> ScKatakanaHash_encode_to_sjis(self.h)
      [] self.t = "Error" -> Question3

-----------------------------------------------------------------------------
(* The TripcodeHash interface of the six hash types.                       *)

HashTypes ==
    {"FourchanHash", "Mona12Hash", "MonaHash", "Sc15Hash", "ScKatakanaHash",
     "ScHash"}

TripcodeHash_decode(T, tripcode) ==
    CASE T = "FourchanHash" -> FourchanHash_decode_from_ascii(tripcode)
      [] T = "Mona12Hash" -> Mona12Hash_decode_from_ascii(tripcode)
      [] T = "MonaHash" -> MonaHash_decode_from_ascii(tripcode)
      [] T = "Sc15Hash" -> Sc15Hash_decode_from_ascii(tripcode)
      [] T = "ScKatakanaHash" -> ScKatakanaHash_decode(tripcode)
      [] T = "ScHash" -> ScHash_decode(tripcode)

TripcodeHash_decode_from_sjis(T, tripcode) ==
    CASE T = "FourchanHash" -> FourchanHash_decode_from_ascii(tripcode)
      [] T = "Mona12Hash" -> Mona12Hash_decode_from_ascii(tripcode)
      [] T = "MonaHash" -> MonaHash_decode_from_ascii(tripcode)
      [] T = "Sc15Hash" -> Sc15Hash_decode_from_ascii(tripcode)
      [] T = "ScKatakanaHash" -> ScKatakanaHash_decode_from_sjis(tripcode)
      [] T = "ScHash" -> ScHash_decode_from_sjis(tripcode)

TripcodeHash_max_len(T) ==
    CASE T = "FourchanHash" -> 10
      [] T = "Mona12Hash" -> 12
      [] T = "MonaHash" -> 12
      [] T = "Sc15Hash" -> 15
      [] T = "ScKatakanaHash" -> 45
      [] T = "ScHash" -> 45

TripcodeHash_max_len_sjis(T) ==
    CASE T = "FourchanHash" -> 10
      [] T = "Mona12Hash" -> 12
      [] T = "MonaHash" -> 12
      [] T = "Sc15Hash" -> 15
      [] T = "ScKatakanaHash" -> 15
      [] T = "ScHash" -> 15

TripcodeHash_append(T, self, v) ==
    CASE T = "FourchanHash" -> FourchanHash_append_ascii(self, v)
      [] T = "Mona12Hash" -> Mona12Hash_append_ascii(self, v)
      [] T = "MonaHash" -> MonaHash_append_ascii(self, v)
      [] T = "Sc15Hash" -> Sc15Hash_append_ascii(self, v)
      [] T = "ScKatakanaHash" -> ScKatakanaHash_append(self, v)
      [] T = "ScHash" -> ScHash_append(self, v)

TripcodeHash_append_sjis(T, self, v) ==
    CASE T = "FourchanHash" -> FourchanHash_append_ascii(self, v)
      [] T = "Mona12Hash" -> Mona12Hash_append_ascii(self, v)
      [] T = "MonaHash" -> MonaHash_append_ascii(self, v)
      [] T = "Sc15Hash" -> Sc15Hash_append_ascii(self, v)
      [] T = "ScKatakanaHash" -> ScKatakanaHash_append_sjis(self, v)
      [] T = "ScHash" -> ScHash_append_sjis(self, v)

TripcodeHash_write(T, self, sink) ==
    CASE T = "FourchanHash" -> FourchanHash_write_ascii(self, sink)
      [] T = "Mona12Hash" -> Mona12Hash_write_ascii(self, sink)
      [] T = "MonaHash" -> MonaHash_write_ascii(self, sink)
      [] T = "Sc15Hash" -> Sc15Hash_write_ascii(self, sink)
      [] T = "ScKatakanaHash" -> ScKatakanaHash_write(self, sink)
      [] T = "ScHash" -> ScHash_write(self, sink)

TripcodeHash_write_sjis(T, self, sink) ==
    CASE T = "FourchanHash" -> FourchanHash_write_ascii(self, sink)
      [] T = "Mona12Hash" -> Mona12Hash_write_ascii(self, sink)
      [] T = "MonaHash" -> MonaHash_write_ascii(self, sink)
      [] T = "Sc15Hash" -> Sc15Hash_write_ascii(self, sink)
      [] T = "ScKatakanaHash" -> ScKatakanaHash_write_sjis(self, sink)
      [] T = "ScHash" -> ScHash_write_sjis(self, sink)

TripcodeHash_encode(T, self) ==
    CASE T = "MonaHash" -> MonaHash_encode_to_ascii(self)
      [] T = "ScKatakanaHash" -> ScKatakanaHash_encode(self)
      [] T = "ScHash" -> ScHash_encode(self)
      [] OTHER -> Default_encode_to_ascii(T, self)

TripcodeHash_encode_to_sjis(T, self) ==
    CASE T = "MonaHash" -> MonaHash_encode_to_ascii(self)
      [] T = "ScKatakanaHash" -> ScKatakanaHash_encode_to_sjis(self)
      [] T = "ScHash" -> ScHash_encode_to_sjis(self)
      [] OTHER -> Default_encode_to_ascii(T, self)

-----------------------------------------------------------------------------
(* Sample hash values: fifteen 6-bit groups, all equal to a except group k *)
(* which is b, laid out in the words of the hash type, followed by the     *)
(* padding bits pad.                                                       *)

GroupVals == <<0, 63, 21, 52, 62, 20, 42, 1>>
SampleVals == {GroupVals[i] : i \in 1..NumVals}

GroupBit(v, j) == (v \div Pow2(5 - j)) % 2

\* bit i (1-based) of the concatenation of the groups gs
GroupsBit(gs, i) == GroupBit(gs[((i - 1) \div 6) + 1], (i - 1) % 6)

Template(n, a, b, k) == Tuple([i \in 1..n |-> IF i = k THEN b ELSE a])

Templates(n, vals) ==
    {Template(n, a, b, k) : a \in vals, b \in vals, k \in 1..n}

PadVals == {0, 2}

\* 10 groups and the low 4 bits
Fourchan_of(gs, pad) ==
    FourchanHash(Tuple([i \in 1..64 |->
        IF i <= 60 THEN GroupsBit(gs, i) ELSE FromNat(pad, 4)[i - 60]]))

\* 12 groups: 64 bits and 8 bits
Mona12_of(gs) ==
    Mona12Hash(Tuple([i \in 1..64 |-> GroupsBit(gs, i)]),
               Tuple([i \in 1..8 |-> GroupsBit(gs, 64 + i)]))

\* 10 groups and 4 padding bits, 5 groups and 2 padding bits
Sc15_of(gs, pad) ==
    Sc15Hash(Tuple([i \in 1..64 |->
                 IF i <= 60 THEN GroupsBit(gs, i) ELSE FromNat(pad, 4)[i - 60]]),
             Tuple([i \in 1..32 |->
                 IF i <= 30 THEN GroupsBit(gs, 60 + i)
                 ELSE FromNat(pad, 2)[i - 30]]))

FourchanSamples ==
    {Fourchan_of(gs, pad) : gs \in Templates(10, SampleVals), pad \in PadVals}
Mona12Samples == {Mona12_of(gs) : gs \in Templates(12, SampleVals)}
Sc15Samples ==
    {Sc15_of(gs, pad) : gs \in Templates(15, SampleVals), pad \in PadVals}

\* the wrapped values of the enums: the templates whose odd group is the
\* first or the last one
EdgeTemplates(n, vals) ==
    {Template(n, a, b, k) : a \in vals, b \in vals, k \in {1, n}}

FourchanEdge ==
    {Fourchan_of(gs, pad) : gs \in EdgeTemplates(10, SampleVals), pad \in PadVals}
Mona12Edge == {Mona12_of(gs) : gs \in EdgeTemplates(12, SampleVals)}
Sc15Edge ==
    {Sc15_of(gs, pad) : gs \in EdgeTemplates(15, SampleVals), pad \in PadVals}

SampleHashes(T) ==
    CASE T = "FourchanHash" -> FourchanSamples
      [] T = "Mona12Hash" -> Mona12Samples
      [] T = "MonaHash" ->
           {Ten(h) : h \in FourchanEdge} \cup
           {Twelve(h) : h \in Mona12Edge} \cup {Error}
      [] T = "Sc15Hash" -> Sc15Samples
      [] T = "ScKatakanaHash" -> {ScKatakanaHash(h) : h \in Sc15Samples}
      [] T = "ScHash" ->
           {Ten(h) : h \in FourchanEdge} \cup
           {Twelve(h) : h \in Mona12Edge} \cup
           {Fifteen(h) : h \in Sc15Edge} \cup
           {Katakana(ScKatakanaHash(h)) : h \in Sc15Edge} \cup {Error}

LowBitsZero(w, n) == \A i \in (Len(w) - n + 1)..Len(w) : w[i] = 0

\* the padding bits of a hash value are zero
RECURSIVE PaddingZero(_)
PaddingZero(h) ==
    CASE h.t = "FourchanHash" -> LowBitsZero(h.a, 6)
      [] h.t = "Mona12Hash" -> TRUE
      [] h.t = "Sc15Hash" -> LowBitsZero(h.a, 4) /\ LowBitsZero(h.b, 2)
      [] h.t = "Error" -> TRUE
      [] OTHER -> PaddingZero(h.h)

-----------------------------------------------------------------------------
(* Sample texts: n bytes (or n katakana symbols), all equal to c1 except   *)
(* the one at position k, which is c2.  The bytes are A / ! ? and the      *)
(* Shift-JIS katakana 0xB1, then . + 2; the symbols are ! and two katakana *)
(* in UTF-8, then U+FF60, which is no half-width katakana, A, and more.    *)

CharVals == <<65, 47, 33, 63, 177, 46, 43, 50>>
SampleChars == {CharVals[i] : i \in 1..NumChars}

SymVals ==
    << <<33>>, <<239, 189, 177>>, <<239, 190, 128>>, <<239, 189, 160>>,
       <<65>>, <<239, 190, 159>>, <<239, 191, 128>>, <<239, 189>> >>
SampleSyms == {SymVals[i] : i \in 1..NumChars}

TextLens == {3, 10, 12, 15, 16, 17}
SymLens == {14, 15, 16}

RECURSIVE Flatten(_)
Flatten(ss) == IF ss = <<>> THEN <<>> ELSE Head(ss) \o Flatten(Tail(ss))

AsciiTexts == UNION {Templates(n, SampleChars) : n \in TextLens}
KanaTexts == {Flatten(t) : t \in UNION {Templates(n, SampleSyms) : n \in SymLens}}

SampleTexts(T, e) ==
    IF e = "utf8" /\ T \in {"ScKatakanaHash", "ScHash"}
    THEN AsciiTexts \cup KanaTexts
    ELSE AsciiTexts

-----------------------------------------------------------------------------
(* The codec experiments: a hash value is encoded through every output     *)
(* path and the text decoded again; or a text is decoded and the hash      *)
(* value, if there is one, encoded again.                                  *)

NoOuts ==
    [encode |-> <<>>, append |-> <<>>, write |-> <<>>,
     encode_to_sjis |-> <<>>, append_sjis |-> <<>>, write_sjis |-> <<>>]

OutputPaths(T, h) ==
    [encode |-> TripcodeHash_encode(T, h),
     append |-> TripcodeHash_append(T, h, Vec_with_capacity(0)).bytes,
     write |-> TripcodeHash_write(T, h, <<>>),
     encode_to_sjis |-> TripcodeHash_encode_to_sjis(T, h),
     append_sjis |-> TripcodeHash_append_sjis(T, h, Vec_with_capacity(0)).bytes,
     write_sjis |-> TripcodeHash_write_sjis(T, h, <<>>)]

DecodeAs(e, T, tripcode) ==
    IF e = "utf8" THEN TripcodeHash_decode(T, tripcode)
    ELSE TripcodeHash_decode_from_sjis(T, tripcode)

\* the Shift-JIS methods of the types that implement AsciiTripcodeHash only
\* forward to the ASCII ones
Encodings(T) ==
    IF T \in {"MonaHash", "ScKatakanaHash", "ScHash"} THEN {"utf8", "sjis"}
    ELSE {"utf8"}

CodecInit ==
    /\ ty \in HashTypes
    /\ enc \in Encodings(ty)
    /\ \/ stage = "hash" /\ hashv \in SampleHashes(ty) /\ text = <<>>
       \/ stage = "text" /\ hashv = Error /\ text \in SampleTexts(ty, enc)
    /\ decoded = None
    /\ outs = NoOuts
    /\ password = <<>>
    /\ dst = Vec_with_capacity(0)
    /\ expected = <<>>

\* h.encode(), h.append(..), h.write(..) and their Shift-JIS counterparts
Encode ==
    /\ \/ stage = "hash" /\ stage' = "hash_enc"
       \/ stage = "text_dec" /\ IsSome(decoded) /\ stage' = "text_dec_enc"
    /\ outs' = OutputPaths(ty, hashv)
    /\ text' = IF stage = "hash"
               THEN (IF enc = "utf8" THEN outs'.encode ELSE outs'.encode_to_sjis)
               ELSE text
    /\ UNCHANGED <<ty, enc, hashv, decoded, password, dst, expected>>

\* T::decode(text) or T::decode_from_sjis(text)
Decode ==
    /\ decoded' = DecodeAs(enc, ty, text)
    /\ \/ stage = "hash_enc" /\ stage' = "hash_enc_dec" /\ hashv' = hashv
       \/ /\ stage = "text"
          /\ stage' = "text_dec"
          /\ hashv' = IF IsSome(decoded') THEN Unwrap(decoded') ELSE hashv
    /\ UNCHANGED <<ty, enc, text, outs, password, dst, expected>>

CodecNext == Encode \/ Decode

SpecCodec == CodecInit /\ [][CodecNext]_vars

-----------------------------------------------------------------------------
(* Claims about the codecs, checked under SpecCodec.                       *)

\* C1: for every hash value h of FourchanHash, Mona12Hash, Sc15Hash or
\* ScKatakanaHash whose padding bits are zero, and for every MonaHash (its
\* Ten payload with zero padding bits), decoding the encoding of h returns
\* Some(h); so does ScKatakanaHash::decode_from_sjis on encode_to_sjis.
C1_DecodeEncode ==
    (/\ stage = "hash_enc_dec"
     /\ ty \in {"FourchanHash", "Mona12Hash", "MonaHash", "Sc15Hash",
                "ScKatakanaHash"}
     /\ PaddingZero(hashv))
    => decoded = Some(hashv)

\* a katakana hash with zero padding and a group that is not '!' has gone
\* through encode_to_sjis and decode_from_sjis
C1_Witness ==
    /\ stage = "hash_enc_dec"
    /\ ty = "ScKatakanaHash"
    /\ enc = "sjis"
    /\ PaddingZero(hashv)
    /\ \E i \in 1..15 : text[i] # 33
    /\ decoded = Some(hashv)

\* the one 90-bit pattern all of whose fifteen groups are 0x3F
AllOnes15 == Sc15_of(Template(15, 63, 63, 1), 0)

\* C2 as stated: every ScHash value with zero padding bits comes back from
\* decode(encode(h)) and from decode_from_sjis(encode_to_sjis(h)) as Some(h),
\* with the same variant tag.
C2_AsStated ==
    (stage = "hash_enc_dec" /\ ty = "ScHash" /\ PaddingZero(hashv))
    => decoded = Some(hashv)

\* C2 amended: every ScHash value with zero padding bits other than
\* Katakana of the all-ones pattern comes back as Some(h) in both encodings;
\* Katakana of the all-ones pattern, whose text is fifteen '!' in both
\* encodings, comes back as Fifteen of the same pattern.
C2_DecodeEncodeSc ==
    (stage = "hash_enc_dec" /\ ty = "ScHash" /\ PaddingZero(hashv))
    => IF hashv = Katakana(ScKatakanaHash(AllOnes15))
       THEN /\ text = <<33, 33, 33, 33, 33, 33, 33, 33, 33, 33, 33, 33, 33, 33, 33>>
            /\ decoded = Some(Fifteen(AllOnes15))
       ELSE decoded = Some(hashv)

\* a Katakana value other than the all-ones one has come back as Katakana
\* from the Shift-JIS pair
C2_Witness ==
    /\ stage = "hash_enc_dec"
    /\ ty = "ScHash"
    /\ enc = "sjis"
    /\ hashv.t = "Katakana"
    /\ PaddingZero(hashv)
    /\ hashv # Katakana(ScKatakanaHash(AllOnes15))
    /\ decoded = Some(hashv)

\* C3: for every hash type T and every text t for which T::decode(t) returns
\* Some(h), h.encode() is t byte for byte.
C3_EncodeDecode ==
    (stage = "text_dec_enc" /\ enc = "utf8") => outs.encode = text

\* a 12-character text whose eleventh character carries bits of both words
\* has been decoded and encoded again
C3_Witness ==
    /\ stage = "text_dec_enc"
    /\ enc = "utf8"
    /\ ty = "Mona12Hash"
    /\ text[11] = 47
    /\ outs.encode = text

\* C4: the Error variant of MonaHash and of ScHash gives exactly the three
\* bytes ??? through encode, append, write, encode_to_sjis, append_sjis and
\* write_sjis; decode and decode_from_sjis of a 3-byte text return
\* Some(Error) if the text is ??? and None otherwise.
C4_ErrorIsQuestionMarks ==
    /\ (/\ stage \in {"hash_enc", "hash_enc_dec", "text_dec_enc"}
        /\ ty \in {"MonaHash", "ScHash"}
        /\ hashv = Error)
       => /\ outs.encode = <<63, 63, 63>>
          /\ outs.append = <<63, 63, 63>>
          /\ outs.write = <<63, 63, 63>>
          /\ outs.encode_to_sjis = <<63, 63, 63>>
          /\ outs.append_sjis = <<63, 63, 63>>
          /\ outs.write_sjis = <<63, 63, 63>>
    /\ (/\ stage \in {"text_dec", "text_dec_enc"}
        /\ ty \in {"MonaHash", "ScHash"}
        /\ Len(text) = 3)
       => decoded = IF text = <<63, 63, 63>> THEN Some(Error) ELSE None

\* the text ??? has been decoded to Error by ScHash::decode_from_sjis and
\* Error encoded again
C4_Witness ==
    /\ stage = "text_dec_enc"
    /\ ty = "ScHash"
    /\ enc = "sjis"
    /\ text = <<63, 63, 63>>
    /\ decoded = Some(Error)
    /\ outs.write_sjis = <<63, 63, 63>>

-----------------------------------------------------------------------------
(* util.rs: escaping, key packing, salts, hexadecimal digits.              *)

\* the outcome of an operation that panics
Panic == [t |-> "panic"]

\* escape!: the entity a byte is replaced by, or <<>> for a byte that is kept
fourchan_escape(c) ==
    CASE c = 34 -> <<38, 113, 117, 111, 116, 59>>
      [] c = 38 -> <<38, 97, 109, 112, 59>>
      [] c = 60 -> <<38, 108, 116, 59>>
      [] c = 62 -> <<38, 103, 116, 59>>
      [] OTHER -> <<>>

mona_escape(c) ==
    CASE c = 34 -> <<38, 113, 117, 111, 116, 59>>
      [] c = 60 -> <<38, 108, 116, 59>>
      [] c = 62 -> <<38, 103, 116, 59>>
      [] OTHER -> <<>>

escape(escaper, c) ==
    IF escaper = "fourchan_escape" THEN fourchan_escape(c) ELSE mona_escape(c)

\* bit b (0 = most significant) of a byte
ByteBit(c, b) == (c \div Pow2(7 - b)) % 2

\* `c as u64` and friends for a byte
ByteW(c, w) ==
    Tuple([i \in 1..w |-> IF w - i < 8 THEN ByteBit(c, 7 - (w - i)) ELSE 0])

\* pack_u64_be: the first min(len, 8) bytes, big-endian, zero on the right
pack_u64_be(bytes) ==
    LET n == Len(bytes)
    IN Tuple([i \in 1..64 |->
           LET k == ((i - 1) \div 8) + 1
           IN IF k <= n THEN ByteBit(bytes[k], (i - 1) % 8) ELSE 0])

\* a mask that keeps the lowest bit of every byte
KeyMask_all_ones == Tuple([i \in 1..64 |-> 1])

\* 0xFEFE_FEFE_FEFE_FEFE
KeyMask == Tuple([i \in 1..64 |-> IF i % 8 = 0 THEN 0 ELSE 1])

secret_to_key(pw) == AndW(ShlW(pack_u64_be(pw), 1), KeyMask)

\* Rust's slice index: a panic when out of bounds (i is 0-based)
InBounds(p, i) == i >= 0 /\ i < Len(p)

\* sc_password_starts_with_katakana indexes out of bounds
sc_password_starts_with_katakana_panics(pw) ==
    \/ ~InBounds(pw, 1)
    \/ /\ pw[2] = 239
       /\ \/ ~InBounds(pw, 2)
          \/ pw[3] \in {189, 190} /\ ~InBounds(pw, 3)

\* the trie with A0 as the lowest third byte after EF BD
sc_password_starts_with_katakana_from_a0(pw) ==
    IF pw[2] = 239
    THEN IF pw[3] = 189 THEN 160 <= pw[4] /\ pw[4] <= 191
         ELSE IF pw[3] = 190 THEN 128 <= pw[4] /\ pw[4] <= 159
         ELSE FALSE
    ELSE FALSE

sc_password_starts_with_katakana(pw) ==
    IF pw[2] = 239
    THEN IF pw[3] = 189 THEN 161 <= pw[4] /\ pw[4] <= 191
         ELSE IF pw[3] = 190 THEN 128 <= pw[4] /\ pw[4] <= 159
         ELSE FALSE
    ELSE FALSE

\* HEX_DECODING
hex_to_i(c) ==
    IF c >= 48 /\ c <= 57 THEN c - 48
    ELSE IF c >= 65 /\ c <= 70 THEN c - 55
    ELSE IF c >= 97 /\ c <= 102 THEN c - 87
    ELSE 16

\* SALT_DECODING that folds every character outside ./0-9A-Za-z to 0
SALT_DECODING_invalid_as_dot(c) ==
    IF c <= 46 THEN 0
    ELSE IF c <= 57 THEN c - 46
    ELSE IF c >= 65 /\ c <= 90 THEN c - 53
    ELSE IF c >= 97 /\ c <= 122 THEN c - 59
    ELSE 0

\* SALT_DECODING
SALT_DECODING(c) ==
    IF c <= 46 THEN 0
    ELSE IF c <= 64 THEN c - 46
    ELSE IF c <= 96 THEN c - 53
    ELSE IF c <= 122 THEN c - 59
    ELSE 0

SaltWord(v1, v2) ==
    OrW(ShlW(FromNat(v1, 32), 26), ShlW(FromNat(v2, 32), 18))

decode_salt(salt1, salt2) ==
    SaltWord(SALT_DECODING(salt1), SALT_DECODING(salt2))

\* SALT_DECODING_STRICT
SALT_DECODING_STRICT(c) ==
    IF c = 46 \/ c = 47 THEN c - 46
    ELSE IF c >= 48 /\ c <= 57 THEN c - 46
    ELSE IF c >= 65 /\ c <= 90 THEN c - 53
    ELSE IF c >= 97 /\ c <= 122 THEN c - 59
    ELSE 64

\* decode_salt_strict that validates its first character only
decode_salt_strict_first_only(salt1, salt2) ==
    LET d1 == SALT_DECODING_STRICT(salt1)
    IN IF d1 > 63 THEN None
       ELSE Some(SaltWord(d1, SALT_DECODING(salt2)))

decode_salt_strict(salt1, salt2) ==
    LET d1 == SALT_DECODING_STRICT(salt1)
        d2 == SALT_DECODING_STRICT(salt2)
    IN IF d1 > 63 THEN None
       ELSE IF d2 > 63 THEN None
       ELSE Some(SaltWord(d1, d2))

-----------------------------------------------------------------------------
(* The DES core and the SHA-1 digest, which are not part of the sources    *)
(* modelled here, are deterministic stand-ins: every property below holds  *)
(* for them as functions of their arguments only.                          *)

\* the 12 significant bits of a decoded salt
SaltBits(salt) == SubSeq(salt, 1, 6) \o SubSeq(salt, 9, 14)

\* des::zero_cipher_58(key, salt): 58 bits in the top of a u64; the stand-in
\* mixes the 56 key bits that secret_to_key keeps with the salt bits
zero_cipher_58(key, salt) ==
    LET s == SaltBits(salt)
    IN Tuple([j \in 1..64 |->
           IF j <= 56
           THEN (key[j + ((j - 1) \div 7)] + s[((j - 1) % 12) + 1]) % 2
           ELSE IF j = 57 THEN (s[1] + s[7] + s[3]) % 2
           ELSE IF j = 58 THEN (s[6] + s[12] + s[10]) % 2
           ELSE 0])

Sha1_new == <<>>
Sha1_input(sha1, run) == sha1 \o run

\* a position-weighted checksum of bytes lo..hi
RECURSIVE Sha1_sum(_, _, _)
Sha1_sum(bytes, lo, hi) ==
    IF lo > hi THEN 0
    ELSE IF lo = hi THEN (bytes[lo] + 1) * (1 + ((lo * lo) % 251))
    ELSE LET mid == (lo + hi) \div 2
         IN Sha1_sum(bytes, lo, mid) + Sha1_sum(bytes, mid + 1, hi)

\* the 20 bytes of the digest of everything that was fed
Sha1_result(sha1) ==
    LET fed == Tuple(sha1)
        s == (Sha1_sum(fed, 1, Len(fed)) + Len(fed) + 7) % 65521
    IN [k \in 1..20 |-> (s * k + (s \div 251) + 17 * k) % 256]

-----------------------------------------------------------------------------
(* lib.rs: the DES generators.                                             *)

\* one turn of the loop that takes the salt from the first two escaped bytes
des_cipher_escaped_step_first_two(st, c, escaper) ==
    LET escaped == escape(escaper, c)
        j == st.j
    IN IF escaped # <<>>
       THEN [key |-> OrW(st.key, ShrW(pack_u64_be(escaped), 8 * j)),
             salt1 |-> IF j = 0 THEN escaped[1] ELSE st.salt1,
             salt2 |-> CASE j = 0 -> escaped[2]
                         [] j = 1 -> escaped[1]
                         [] OTHER -> st.salt2,
             j |-> j + Len(escaped)]
       ELSE [key |-> OrW(st.key, ShlW(ByteW(c, 64), 8 * (7 - j))),
             salt1 |-> IF j = 0 THEN c ELSE st.salt1,
             salt2 |-> IF j = 1 THEN c ELSE st.salt2,
             j |-> j + 1]

\* one turn of the loop of des_cipher_escaped! on byte c
des_cipher_escaped_step(st, c, escaper) ==
    LET escaped == escape(escaper, c)
        j == st.j
    IN IF escaped # <<>>
       THEN [key |-> OrW(st.key, ShrW(pack_u64_be(escaped), 8 * j)),
             salt1 |-> CASE j = 0 -> escaped[2]
                         [] j = 1 -> escaped[1]
                         [] OTHER -> st.salt1,
             salt2 |-> CASE j = 0 -> escaped[3]
                         [] j = 1 -> escaped[2]
                         [] j = 2 -> escaped[1]
                         [] OTHER -> st.salt2,
             j |-> j + Len(escaped)]
       ELSE [key |-> OrW(st.key, ShlW(ByteW(c, 64), 8 * (7 - j))),
             salt1 |-> IF j = 1 THEN c ELSE st.salt1,
             salt2 |-> IF j = 2 THEN c ELSE st.salt2,
             j |-> j + 1]

RECURSIVE des_cipher_escaped_loop(_, _, _, _)
des_cipher_escaped_loop(pw, escaper, i, st) ==
    IF i > Len(pw) THEN st
    ELSE LET st2 == des_cipher_escaped_step(st, pw[i], escaper)
         IN IF st2.j >= 8 THEN st2
            ELSE des_cipher_escaped_loop(pw, escaper, i + 1, st2)

\* des_cipher_escaped! with the second salt . for a password of 2 bytes
des_cipher_escaped_inputs_dot(pw, escaper) ==
    LET st == des_cipher_escaped_loop(pw, escaper, 1,
                  [key |-> FromNat(0, 64), salt1 |-> 72, salt2 |-> 46, j |-> 0])
    IN [key |-> AndW(ShlW(st.key, 1), KeyMask),
        salt1 |-> st.salt1,
        salt2 |-> IF st.j = 2 THEN 46 ELSE st.salt2]

\* des_cipher_escaped! without the second salt H of a password of 2 bytes
des_cipher_escaped_inputs_without_h(pw, escaper) ==
    LET st == des_cipher_escaped_loop(pw, escaper, 1,
                  [key |-> FromNat(0, 64), salt1 |-> 72, salt2 |-> 46, j |-> 0])
    IN [key |-> AndW(ShlW(st.key, 1), KeyMask),
        salt1 |-> st.salt1,
        salt2 |-> st.salt2]

\* the (key, salt1, salt2) that des_cipher_escaped! arrives at
des_cipher_escaped_inputs(pw, escaper) ==
    LET st == des_cipher_escaped_loop(pw, escaper, 1,
                  [key |-> FromNat(0, 64), salt1 |-> 72, salt2 |-> 46, j |-> 0])
    IN [key |-> AndW(ShlW(st.key, 1), KeyMask),
        salt1 |-> st.salt1,
        salt2 |-> IF st.j = 2 THEN 72 ELSE st.salt2]

des_cipher_escaped(pw, escaper) ==
    LET in == des_cipher_escaped_inputs(pw, escaper)
    IN zero_cipher_58(in.key, decode_salt(in.salt1, in.salt2))

Fourchan_hash(pw) == FourchanHash(des_cipher_escaped(pw, "fourchan_escape"))

Des_hash(pw, salt1, salt2) ==
    FourchanHash(zero_cipher_58(secret_to_key(pw), decode_salt(salt1, salt2)))

FourchanNonescaping_hash(pw) ==
    CASE Len(pw) <= 1 -> Des_hash(pw, 72, 46)
      [] Len(pw) = 2 -> Des_hash(pw, pw[2], 72)
      [] OTHER -> Des_hash(pw, pw[2], pw[3])

Mona10_hash(pw) == FourchanHash(des_cipher_escaped(pw, "mona_escape"))

\* the loop of MonaRaw::try_hash without the break at a null byte
RECURSIVE MonaRaw_pack_no_break(_, _, _)
MonaRaw_pack_no_break(pw, i, packed) ==
    IF i = 8 THEN Some(packed)
    ELSE LET h1 == hex_to_i(pw[2 * i + 2])
             h0 == hex_to_i(pw[2 * i + 3])
         IN IF h1 > 15 THEN None
            ELSE IF h0 > 15 THEN None
            ELSE MonaRaw_pack_no_break(pw, i + 1,
                     [packed EXCEPT ![i + 1] = ((h1 * 16) % 256) + h0])

\* the loop of MonaRaw::try_hash over the eight hex pairs: Some(packed), or
\* None for the early return
RECURSIVE MonaRaw_pack(_, _, _)
MonaRaw_pack(pw, i, packed) ==
    IF i = 8 THEN Some(packed)
    ELSE LET h1 == hex_to_i(pw[2 * i + 2])
             h0 == hex_to_i(pw[2 * i + 3])
         IN IF h1 > 15 THEN None
            ELSE IF h0 > 15 THEN None
            ELSE LET byte == ((h1 * 16) % 256) + h0
                 IN IF byte = 0
                    THEN IF \A k \in (2 * i + 1)..16 : hex_to_i(pw[k + 1]) # 16
                         THEN Some(packed)
                         ELSE None
                    ELSE MonaRaw_pack(pw, i + 1, [packed EXCEPT ![i + 1] = byte])

\* MonaRaw::try_hash with the folding decode_salt for its salt
MonaRaw_try_hash_folding_salt(pw) ==
    LET salt == CASE Len(pw) = 17 -> Some(FromNat(0, 32))
                  [] Len(pw) = 18 -> Some(decode_salt(pw[18], 46))
                  [] Len(pw) = 19 -> Some(decode_salt(pw[18], pw[19]))
                  [] OTHER -> None
    IN IF salt = None THEN None
       ELSE LET packed == MonaRaw_pack(pw, 0, <<0, 0, 0, 0, 0, 0, 0, 0>>)
            IN IF packed = None THEN None
               ELSE Some(FourchanHash(
                        zero_cipher_58(secret_to_key(Unwrap(packed)),
                                       Unwrap(salt))))

MonaRaw_try_hash(pw) ==
    LET salt == CASE Len(pw) = 17 -> Some(FromNat(0, 32))
                  [] Len(pw) = 18 -> decode_salt_strict(pw[18], 46)
                  [] Len(pw) = 19 -> decode_salt_strict(pw[18], pw[19])
                  [] OTHER -> None
    IN IF salt = None THEN None
       ELSE LET packed == MonaRaw_pack(pw, 0, <<0, 0, 0, 0, 0, 0, 0, 0>>)
            IN IF packed = None THEN None
               ELSE Some(FourchanHash(
                        zero_cipher_58(secret_to_key(Unwrap(packed)),
                                       Unwrap(salt))))

-----------------------------------------------------------------------------
(* lib.rs: the SHA-1 generators.                                           *)

\* the indexes (0-based) from i on of the bytes that mona_escape! escapes
EscapedFrom(pw, i) == {k \in i..(Len(pw) - 1) : mona_escape(pw[k + 1]) # <<>>}

\* the loop of sha1_internal that never moves `first` past an escaped byte
RECURSIVE sha1_internal_feed_first_kept(_, _, _, _)
sha1_internal_feed_first_kept(pw, i, first, sha1) ==
    IF EscapedFrom(pw, i) = {}
    THEN Sha1_input(sha1, SubSeq(pw, first + 1, Len(pw)))
    ELSE LET k == CHOOSE k \in EscapedFrom(pw, i) :
                      \A l \in EscapedFrom(pw, i) : k <= l
         IN sha1_internal_feed_first_kept(pw, k + 1, first,
                Sha1_input(Sha1_input(sha1, SubSeq(pw, first + 1, k)),
                           mona_escape(pw[k + 1])))

\* the loop of sha1_internal that feeds the entity but not the run before it
RECURSIVE sha1_internal_feed_without_run(_, _, _, _)
sha1_internal_feed_without_run(pw, i, first, sha1) ==
    IF EscapedFrom(pw, i) = {}
    THEN Sha1_input(sha1, SubSeq(pw, first + 1, Len(pw)))
    ELSE LET k == CHOOSE k \in EscapedFrom(pw, i) :
                      \A l \in EscapedFrom(pw, i) : k <= l
         IN sha1_internal_feed_without_run(pw, k + 1, k + 1,
                Sha1_input(sha1, mona_escape(pw[k + 1])))

\* the loop of sha1_internal with escape, from index i (0-based) on: the
\* rounds up to the next escaped byte, at k, do nothing; round k feeds the
\* run password[first..k] and the entity; after the loop comes the last run
RECURSIVE sha1_internal_feed(_, _, _, _)
sha1_internal_feed(pw, i, first, sha1) ==
    IF EscapedFrom(pw, i) = {}
    THEN Sha1_input(sha1, SubSeq(pw, first + 1, Len(pw)))
    ELSE LET k == CHOOSE k \in EscapedFrom(pw, i) :
                      \A l \in EscapedFrom(pw, i) : k <= l
         IN sha1_internal_feed(pw, k + 1, k + 1,
                Sha1_input(Sha1_input(sha1, SubSeq(pw, first + 1, k)),
                           mona_escape(pw[k + 1])))

\* sha1_internal: the digest that is handed to `result`
sha1_internal(pw, escape_flag) ==
    IF escape_flag THEN Sha1_result(sha1_internal_feed(pw, 0, 0, Sha1_new))
    ELSE Sha1_result(Sha1_input(Sha1_new, pw))

\* the big-endian u64 read at byte offset off of the digest
DigestWord(d, off) == pack_u64_be(SubSeq(d, off + 1, off + 8))

\* a Mona12Hash whose byte is the last byte of the word again
Mona12_of_digest_byte_7(d) == Mona12Hash(DigestWord(d, 0), ByteW(d[8], 8))

Mona12_of_digest(d) == Mona12Hash(DigestWord(d, 0), ByteW(d[9], 8))

Mona12_hash(pw) == Mona12_of_digest(sha1_internal(pw, TRUE))

Mona12Nonescaping_hash(pw) == Mona12_of_digest(sha1_internal(pw, FALSE))

\* 0xFFFF_FFFF_FFFF_FFF0 and 0xFFFF_FFFC (as u64)
MaskFFF0 == Tuple([i \in 1..64 |-> IF i <= 60 THEN 1 ELSE 0])
MaskFFFC == Tuple([i \in 1..64 |-> IF i >= 33 /\ i <= 62 THEN 1 ELSE 0])

\* Sc15::hash without the two masks
Sc15_hash_unmasked(pw) ==
    LET d == sha1_internal(pw, FALSE)
    IN Sc15Hash(ShlW(DigestWord(d, 2), 2),
                CastW(ShrW(DigestWord(d, 6), 2), 32))

\* Sc15::hash with the second word shifted by 3
Sc15_hash_seam(pw) ==
    LET d == sha1_internal(pw, FALSE)
    IN Sc15Hash(AndW(ShlW(DigestWord(d, 2), 2), MaskFFF0),
                CastW(AndW(ShrW(DigestWord(d, 6), 3), MaskFFFC), 32))

Sc15_hash(pw) ==
    LET d == sha1_internal(pw, FALSE)
    IN Sc15Hash(AndW(ShlW(DigestWord(d, 2), 2), MaskFFF0),
                CastW(AndW(ShrW(DigestWord(d, 6), 2), MaskFFFC), 32))

ScKatakana_hash(pw) == ScKatakanaHash(Sc15_hash(pw))

-----------------------------------------------------------------------------
(* lib.rs: the dispatchers.                                                *)

\* the sum of the lengths the bytes pw[lo..hi] have when escaped
RECURSIVE SumLen(_, _, _)
SumLen(pw, lo, hi) ==
    IF lo > hi THEN 0
    ELSE IF lo = hi
    THEN LET escaped == mona_escape(pw[lo])
         IN IF escaped # <<>> THEN Len(escaped) ELSE 1
    ELSE LET mid == (lo + hi) \div 2
         IN SumLen(pw, lo, mid) + SumLen(pw, mid + 1, hi)

\* the length of mona_internal without the escaping
mona_internal_len_raw(pw, escape_flag) == Len(pw)

\* the length mona_internal compares with 12
mona_internal_len(pw, escape_flag) ==
    IF escape_flag THEN SumLen(pw, 1, Len(pw)) ELSE Len(pw)

\* H::hash and I::hash for the type parameters of mona_internal
H_hash(H, pw) ==
    IF H = "Mona10" THEN Mona10_hash(pw) ELSE FourchanNonescaping_hash(pw)
I_hash(I, pw) ==
    IF I = "Mona12" THEN Mona12_hash(pw) ELSE Mona12Nonescaping_hash(pw)

\* mona_internal without the branch for $
mona_internal_dollar_as_twelve(pw, escape_flag, H, I) ==
    IF mona_internal_len(pw, escape_flag) >= 12
    THEN IF ~InBounds(pw, 0) THEN Panic
         ELSE IF pw[1] = 35
         THEN LET r == MonaRaw_try_hash(pw)
              IN IF IsSome(r) THEN Ten(Unwrap(r)) ELSE Error
         ELSE Twelve(I_hash(I, pw))
    ELSE Ten(H_hash(H, pw))

mona_internal(pw, escape_flag, H, I) ==
    IF mona_internal_len(pw, escape_flag) >= 12
    THEN IF ~InBounds(pw, 0) THEN Panic
         ELSE IF pw[1] = 35
         THEN LET r == MonaRaw_try_hash(pw)
              IN IF IsSome(r) THEN Ten(Unwrap(r)) ELSE Error
         ELSE IF pw[1] = 36 THEN Error
         ELSE Twelve(I_hash(I, pw))
    ELSE Ten(H_hash(H, pw))

Mona_hash(pw) == mona_internal(pw, TRUE, "Mona10", "Mona12")

MonaNonescaping_hash(pw) ==
    mona_internal(pw, FALSE, "Mona10Nonescaping", "Mona12Nonescaping")

\* the closure of ScSjis::hash without its upper bound 0xDF
ScSjis_katakana_no_upper_bound(slice) == 161 <= slice[2]

\* the closure ScSjis::hash passes to sc_internal
ScSjis_katakana(slice) == 161 <= slice[2] /\ slice[2] <= 223

\* F, the katakana test sc_internal is given
katakana_panics(F, slice) ==
    IF F = "ScSjis" THEN ~InBounds(slice, 1)
    ELSE sc_password_starts_with_katakana_panics(slice)
katakana_test(F, slice) ==
    IF F = "ScSjis" THEN ScSjis_katakana(slice)
    ELSE sc_password_starts_with_katakana(slice)

\* sc_internal that looks at the first byte and at the katakana whatever the
\* length of the password
sc_internal_without_len(pw, katakana) ==
    IF ~InBounds(pw, 0) THEN Panic
    ELSE IF pw[1] = 35
    THEN LET r == MonaRaw_try_hash(pw)
         IN IF IsSome(r) THEN Ten(Unwrap(r)) ELSE Error
    ELSE IF pw[1] = 36
    THEN IF katakana_panics(katakana, pw) THEN Panic
         ELSE IF katakana_test(katakana, pw)
         THEN Katakana(ScKatakanaHash(Sc15_hash(pw)))
         ELSE Fifteen(Sc15_hash(pw))
    ELSE IF Len(pw) >= 12 THEN Twelve(Mona12Nonescaping_hash(pw))
    ELSE Ten(FourchanNonescaping_hash(pw))

\* sc_internal with the escaping generators of Mona in the ordinary branches
sc_internal_escaping(pw, katakana) ==
    IF Len(pw) >= 12
    THEN IF pw[1] = 35
         THEN LET r == MonaRaw_try_hash(pw)
              IN IF IsSome(r) THEN Ten(Unwrap(r)) ELSE Error
         ELSE IF pw[1] = 36
         THEN LET h == Sc15_hash(pw)
              IN IF katakana_panics(katakana, pw) THEN Panic
                 ELSE IF katakana_test(katakana, pw)
                 THEN Katakana(ScKatakanaHash(h))
                 ELSE Fifteen(h)
         ELSE Twelve(Mona12_hash(pw))
    ELSE Ten(Mona10_hash(pw))

\* sc_internal without the branch for #
sc_internal_sharp_as_twelve(pw, katakana) ==
    IF Len(pw) >= 12
    THEN IF pw[1] = 36
         THEN LET h == Sc15_hash(pw)
              IN IF katakana_panics(katakana, pw) THEN Panic
                 ELSE IF katakana_test(katakana, pw)
                 THEN Katakana(ScKatakanaHash(h))
                 ELSE Fifteen(h)
         ELSE Twelve(Mona12Nonescaping_hash(pw))
    ELSE Ten(FourchanNonescaping_hash(pw))

sc_internal(pw, katakana) ==
    IF Len(pw) >= 12
    THEN IF pw[1] = 35
         THEN LET r == MonaRaw_try_hash(pw)
              IN IF IsSome(r) THEN Ten(Unwrap(r)) ELSE Error
         ELSE IF pw[1] = 36
         THEN LET h == Sc15_hash(pw)
              IN IF katakana_panics(katakana, pw) THEN Panic
                 ELSE IF katakana_test(katakana, pw)
                 THEN Katakana(ScKatakanaHash(h))
                 ELSE Fifteen(h)
         ELSE Twelve(Mona12Nonescaping_hash(pw))
    ELSE Ten(FourchanNonescaping_hash(pw))

Sc_hash(pw) == sc_internal(pw, "sc_password_starts_with_katakana")

ScSjis_hash(pw) == sc_internal(pw, "ScSjis")

-----------------------------------------------------------------------------
(* trait TripcodeGenerator.                                                *)

Generators ==
    {"Fourchan", "FourchanNonescaping", "Mona", "MonaNonescaping", "Mona10",
     "Mona12", "Mona12Nonescaping", "Sc", "ScSjis", "Sc15", "ScKatakana"}

\* type Hash
HashOf(G) ==
    CASE G \in {"Fourchan", "FourchanNonescaping", "Mona10"} -> "FourchanHash"
      [] G \in {"Mona", "MonaNonescaping"} -> "MonaHash"
      [] G \in {"Mona12", "Mona12Nonescaping"} -> "Mona12Hash"
      [] G \in {"Sc", "ScSjis"} -> "ScHash"
      [] G = "Sc15" -> "Sc15Hash"
      [] G = "ScKatakana" -> "ScKatakanaHash"

TripcodeGenerator_hash(G, pw) ==
    CASE G = "Fourchan" -> Fourchan_hash(pw)
      [] G = "FourchanNonescaping" -> FourchanNonescaping_hash(pw)
      [] G = "Mona" -> Mona_hash(pw)
      [] G = "MonaNonescaping" -> MonaNonescaping_hash(pw)
      [] G = "Mona10" -> Mona10_hash(pw)
      [] G = "Mona12" -> Mona12_hash(pw)
      [] G = "Mona12Nonescaping" -> Mona12Nonescaping_hash(pw)
      [] G = "Sc" -> Sc_hash(pw)
      [] G = "ScSjis" -> ScSjis_hash(pw)
      [] G = "Sc15" -> Sc15_hash(pw)
      [] G = "ScKatakana" -> ScKatakana_hash(pw)

TripcodeGenerator_generate(G, pw) ==
    TripcodeHash_encode(HashOf(G), TripcodeGenerator_hash(G, pw))

TripcodeGenerator_append(G, pw, v) ==
    TripcodeHash_append(HashOf(G), TripcodeGenerator_hash(G, pw), v)

TripcodeGenerator_write(G, pw, sink) ==
    TripcodeHash_write(HashOf(G), TripcodeGenerator_hash(G, pw), sink)

TripcodeGenerator_generate_sjis(G, pw) ==
    TripcodeHash_encode_to_sjis(HashOf(G), TripcodeGenerator_hash(G, pw))

TripcodeGenerator_append_sjis(G, pw, v) ==
    TripcodeHash_append_sjis(HashOf(G), TripcodeGenerator_hash(G, pw), v)

TripcodeGenerator_write_sjis(G, pw, sink) ==
    TripcodeHash_write_sjis(HashOf(G), TripcodeGenerator_hash(G, pw), sink)

-----------------------------------------------------------------------------
(* Sample passwords: the first n bytes of a head followed by a filler      *)
(* byte, for lengths around the thresholds 12 and 17..19, and passwords of *)
(* the test suite.  The heads are: none, #, $, $ and a katakana in UTF-8,  *)
(* $ and a katakana in Shift-JIS, then &, and # with a null hex pair; the  *)
(* fillers are a, the double quote, then 0 and <.                          *)

NumHeads == 5
NumFills == 2

PwHeadVals ==
    << <<>>, <<35>>, <<36>>, <<36, 239, 189, 177>>, <<36, 177>>,
       <<38>>, <<35, 48, 48>> >>
PwFillVals == <<97, 34, 48, 60>>
PwLens == {0, 1, 2, 3, 11, 12, 13, 16, 17, 18, 19, 20}

Password(head, fill, n) ==
    Tuple([i \in 1..n |-> IF i <= Len(head) THEN head[i] ELSE fill])

\* #0123456789abcdef./  #fedcba9876543210!!  #00abcdefghijklmn..
\* aaaaa"  aaaaaa"  $<>
TestPasswords ==
    { <<35, 48, 49, 50, 51, 52, 53, 54, 55, 56, 57, 97, 98, 99, 100, 101, 102,
        46, 47>>,
      <<35, 102, 101, 100, 99, 98, 97, 57, 56, 55, 54, 53, 52, 51, 50, 49, 48,
        33, 33>>,
      <<35, 48, 48, 97, 98, 99, 100, 101, 102, 103, 104, 105, 106, 107, 108,
        109, 110, 46, 46>>,
      <<97, 97, 97, 97, 97, 34>>,
      <<97, 97, 97, 97, 97, 97, 34>>,
      <<36, 60, 62>> }

\* what follows $ at the edges of the katakana ranges, in UTF-8 (EF BD
\* A1..BF, EF BE 80..9F) and in Shift-JIS (A1..DF)
KatakanaEdgeVals ==
    << <<239, 189, 160>>, <<239, 189, 161>>, <<239, 189, 191>>,
       <<239, 189, 192>>, <<239, 190, 127>>, <<239, 190, 128>>,
       <<239, 190, 159>>, <<239, 190, 160>>, <<239, 191, 161>>,
       <<160>>, <<161>>, <<223>>, <<224>> >>

KatakanaEdgePasswords ==
    {Password(<<36>> \o KatakanaEdgeVals[i], 97, 12) :
        i \in 1..Len(KatakanaEdgeVals)}

\* passwords with HTML special characters at the start, at the salts and
\* around the eighth escaped byte:
\* &  a&  ab<  a&>  <>"&  &amp;  aaaa>  aaaa&  aaaaaa>  aaaaaaa&  aaaaaaaa&
\* abc"def  abc&quot;def  #"  $"<
EscapePasswords ==
    { <<38>>, <<97, 38>>, <<97, 98, 60>>, <<97, 38, 62>>, <<60, 62, 34, 38>>,
      <<38, 97, 109, 112, 59>>,
      <<97, 97, 97, 97, 62>>, <<97, 97, 97, 97, 38>>,
      <<97, 97, 97, 97, 97, 97, 62>>,
      <<97, 97, 97, 97, 97, 97, 97, 38>>,
      <<97, 97, 97, 97, 97, 97, 97, 97, 38>>,
      <<97, 98, 99, 34, 100, 101, 102>>,
      <<97, 98, 99, 38, 113, 117, 111, 116, 59, 100, 101, 102>>,
      <<35, 34>>, <<36, 34, 60>> }

SamplePasswords ==
    {Password(PwHeadVals[h], PwFillVals[f], n) :
        h \in 1..NumHeads, f \in 1..NumFills, n \in PwLens}
    \cup TestPasswords \cup KatakanaEdgePasswords \cup EscapePasswords

\* a buffer with exactly max_len() spare bytes, and one with a byte less
InitialBuffers(G) ==
    LET n == TripcodeHash_max_len(HashOf(G))
    IN {[bytes |-> <<120, 121>>, cap |-> 2 + n], [bytes |-> <<120>>, cap |-> n]}

-----------------------------------------------------------------------------
(* One generator on one password: hash, generate, generate_sjis, append to *)
(* a buffer, write to a sink.  `expected` keeps the buffer as it was       *)
(* before the append.                                                      *)

GenNoOuts ==
    [generate |-> <<>>, generate_sjis |-> <<>>, append |-> <<>>, write |-> <<>>]

GenInit ==
    /\ ty \in Generators
    /\ password \in SamplePasswords
    /\ dst \in InitialBuffers(ty)
    /\ expected = dst
    /\ stage = "pw"
    /\ enc = "utf8"
    /\ hashv = Error
    /\ text = <<>>
    /\ decoded = None
    /\ outs = GenNoOuts

Hash ==
    /\ stage = "pw"
    /\ stage' = "hashed"
    /\ hashv' = TripcodeGenerator_hash(ty, password)
    /\ UNCHANGED <<ty, enc, text, decoded, outs, password, dst, expected>>

Generate ==
    /\ stage = "hashed"
    /\ stage' = "generated"
    /\ outs' = [outs EXCEPT !.generate = TripcodeGenerator_generate(ty, password)]
    /\ UNCHANGED <<ty, enc, hashv, text, decoded, password, dst, expected>>

GenerateSjis ==
    /\ stage = "generated"
    /\ stage' = "generated_sjis"
    /\ outs' = [outs EXCEPT
                   !.generate_sjis = TripcodeGenerator_generate_sjis(ty, password)]
    /\ UNCHANGED <<ty, enc, hashv, text, decoded, password, dst, expected>>

AppendDst ==
    /\ stage = "generated_sjis"
    /\ stage' = "appended"
    /\ expected' = dst
    /\ dst' = TripcodeGenerator_append(ty, password, dst)
    /\ outs' = [outs EXCEPT
                   !.append = SubSeq(dst'.bytes, Len(dst.bytes) + 1,
                                     Len(dst'.bytes))]
    /\ UNCHANGED <<ty, enc, hashv, text, decoded, password>>

Write ==
    /\ stage = "appended"
    /\ stage' = "written"
    /\ text' = TripcodeGenerator_write(ty, password, text)
    /\ outs' = [outs EXCEPT !.write = text']
    /\ UNCHANGED <<ty, enc, hashv, decoded, password, dst, expected>>

GenNext == Hash \/ Generate \/ GenerateSjis \/ AppendDst \/ Write

SpecGen == GenInit /\ [][GenNext]_vars

-----------------------------------------------------------------------------
(* A sequence of append calls of any generators on one buffer.  `expected` *)
(* keeps the buffer as it was before the first call and `outs` the         *)
(* tripcodes generate returns for the calls so far, in call order.  The    *)
(* calls are those of the test `append`: Mona10 on "a", Mona12 on          *)
(* "0123456789ab", Mona on "##0123456789", ScKatakana on a Shift-JIS       *)
(* password, Sc15 on "$a9876543210"; then Sc on a UTF-8 katakana password, *)
(* Fourchan on "&" and ScSjis on "#".                                      *)

MaxAppends == 2
NumCalls == 6

CallVals ==
    << [G |-> "Mona10", pw |-> <<97>>],
       [G |-> "Mona12", pw |-> <<48, 49, 50, 51, 52, 53, 54, 55, 56, 57, 97, 98>>],
       [G |-> "Mona", pw |-> <<35, 35, 48, 49, 50, 51, 52, 53, 54, 55, 56, 57>>],
       [G |-> "ScKatakana",
        pw |-> <<36, 161, 49, 48, 48, 56, 51, 52, 51, 49, 51, 49>>],
       [G |-> "Sc15", pw |-> <<36, 97, 57, 56, 55, 54, 53, 52, 51, 50, 49, 48>>],
       [G |-> "Sc",
        pw |-> <<36, 239, 189, 177, 49, 48, 48, 56, 51, 52, 51, 49>>],
       [G |-> "Fourchan", pw |-> <<38>>],
       [G |-> "ScSjis", pw |-> <<35>>] >>
SampleCalls == {CallVals[i] : i \in 1..NumCalls}

AppendBuffers ==
    {Vec_with_capacity(0), [bytes |-> <<120, 121>>, cap |-> 2],
     [bytes |-> <<120>>, cap |-> 64]}

AppendInit ==
    /\ dst \in AppendBuffers
    /\ expected = dst
    /\ outs = <<>>
    /\ ty = "none"
    /\ password = <<>>
    /\ stage = "appending"
    /\ enc = "utf8"
    /\ hashv = Error
    /\ text = <<>>
    /\ decoded = None

AppendCall ==
    /\ Len(outs) < MaxAppends
    /\ \E c \in SampleCalls :
          /\ ty' = c.G
          /\ password' = c.pw
          /\ dst' = TripcodeGenerator_append(c.G, c.pw, dst)
          /\ outs' = Append(outs, TripcodeGenerator_generate(c.G, c.pw))
    /\ UNCHANGED <<stage, enc, hashv, text, decoded, expected>>

AppendNext == AppendCall

SpecAppend == AppendInit /\ [][AppendNext]_vars

-----------------------------------------------------------------------------
(* Properties of the generators.                                           *)

\* C5: for every generator and password, the bytes returned by generate, the
\* bytes added to the buffer by append and the bytes written to the sink by
\* write are the same, and they are the encoding of G::hash(p).
C5_SameOutputs ==
    stage = "written" =>
        /\ outs.append = outs.generate
        /\ outs.write = outs.generate
        /\ outs.generate = TripcodeHash_encode(HashOf(ty), hashv)

\* all three outputs are there, and they are the "???" of an Error
C5_Witness ==
    /\ stage = "written"
    /\ ty = "Mona"
    /\ hashv = Error
    /\ outs.generate = Question3
    /\ outs.write = Question3

\* C6: append leaves the capacity of the buffer unchanged whenever the spare
\* capacity before the call is at least max_len() of the hash type; every
\* tripcode is at most max_len() bytes long, and at most max_len_sjis() bytes
\* in Shift-JIS.
C6_NoReallocation ==
    /\ stage \in {"appended", "written"} =>
          /\ expected.cap - Len(expected.bytes)
                 >= TripcodeHash_max_len(HashOf(ty))
               => dst.cap = expected.cap
          /\ Len(outs.append) <= TripcodeHash_max_len(HashOf(ty))
    /\ stage # "pw" /\ stage # "hashed" =>
          Len(outs.generate) <= TripcodeHash_max_len(HashOf(ty))
    /\ stage \in {"generated_sjis", "appended", "written"} =>
          Len(outs.generate_sjis) <= TripcodeHash_max_len_sjis(HashOf(ty))

\* a katakana tripcode longer than 15 bytes was appended to a buffer with
\* exactly 45 spare bytes
C6_Witness ==
    /\ stage = "appended"
    /\ ty = "Sc"
    /\ hashv.t = "Katakana"
    /\ expected.cap - Len(expected.bytes) = 45
    /\ Len(outs.append) > 15
    /\ Len(dst.bytes) = Len(expected.bytes) + Len(outs.append)
    /\ dst.cap = expected.cap

\* C7: after any sequence of append calls on one buffer, the buffer is its
\* initial contents followed by the tripcodes generate returns for the
\* calls, in call order.
C7_AppendsConcatenate ==
    stage = "appending" => dst.bytes = expected.bytes \o Flatten(outs)

\* two calls on a buffer that was not empty: "???" and then a katakana
\* tripcode
C7_Witness ==
    /\ stage = "appending"
    /\ Len(outs) = 2
    /\ Len(expected.bytes) > 0
    /\ outs[1] = Question3
    /\ Len(outs[2]) > 15
    /\ Len(dst.bytes) = Len(expected.bytes) + 3 + Len(outs[2])

\* E2: the password with every " < > replaced by &quot; &lt; &gt;
E2(pw) ==
    Flatten([i \in 1..Len(pw) |->
                CASE pw[i] = 34 -> <<38, 113, 117, 111, 116, 59>>
                  [] pw[i] = 60 -> <<38, 108, 116, 59>>
                  [] pw[i] = 62 -> <<38, 103, 116, 59>>
                  [] OTHER -> <<pw[i]>>])

\* the length a dispatcher of the Mona family decides on
DecidingLen(G, pw) == IF G = "Mona" THEN Len(E2(pw)) ELSE Len(pw)

HashDone == stage # "pw" /\ stage # "appending" /\ ty \in Generators

\* C8: Mona::hash selects the format by the length of the escaped password:
\* at most 11 gives Ten(Mona10::hash(p)), at least 12 with a first byte other
\* than # and $ gives Twelve(Mona12::hash(p)); MonaNonescaping selects in the
\* same way by the raw length, with its non-escaping generators.
C8_MonaFormatByLength ==
    HashDone /\ ty \in {"Mona", "MonaNonescaping"} =>
        LET n == DecidingLen(ty, password)
        IN /\ n <= 11 =>
                hashv = Ten(IF ty = "Mona" THEN Mona10_hash(password)
                            ELSE FourchanNonescaping_hash(password))
           /\ n >= 12 /\ password[1] # 35 /\ password[1] # 36 =>
                hashv = Twelve(IF ty = "Mona" THEN Mona12_hash(password)
                               ELSE Mona12Nonescaping_hash(password))

\* two double quotes: 12 bytes when escaped, so Mona gives a Twelve
C8_Witness ==
    /\ HashDone
    /\ ty = "Mona"
    /\ password = <<34, 34>>
    /\ hashv.t = "Twelve"

\* C9: Mona and MonaNonescaping give Error for a password that starts with $
\* and is at least 12 bytes long (escaped, resp. raw); a shorter password
\* that starts with $ gets the ordinary 10-character DES hash.
C9_DollarIsError ==
    HashDone /\ ty \in {"Mona", "MonaNonescaping"}
             /\ Len(password) > 0 /\ password[1] = 36 =>
        IF DecidingLen(ty, password) >= 12 THEN hashv = Error
        ELSE /\ hashv # Error
             /\ hashv = Ten(IF ty = "Mona" THEN Mona10_hash(password)
                            ELSE FourchanNonescaping_hash(password))
             /\ Len(TripcodeHash_encode("MonaHash", hashv)) = 10

\* $ and two double quotes are 3 bytes, 13 when escaped: Mona gives Error
C9_Witness ==
    /\ HashDone
    /\ ty = "Mona"
    /\ password = <<36, 34, 34>>
    /\ hashv = Error

\* C10: in Mona, MonaNonescaping, Sc and ScSjis, a password of length at
\* least 12 that starts with # gives Ten(h) exactly when MonaRaw::try_hash
\* gives Some(h) and Error exactly when it gives None; when the raw length is
\* not 17, 18 or 19 it gives Error, and it never gives a 12-character hash.
C10_SharpIsRawKey ==
    HashDone /\ ty \in {"Mona", "MonaNonescaping", "Sc", "ScSjis"}
             /\ DecidingLen(ty, password) >= 12 /\ password[1] = 35 =>
        LET r == MonaRaw_try_hash(password)
        IN /\ IsSome(r) => hashv = Ten(Unwrap(r))
           /\ r = None => hashv = Error
           /\ hashv # Error => IsSome(r)
           /\ Len(password) \notin {17, 18, 19} => hashv = Error
           /\ hashv.t # "Twelve"

\* a raw key of 18 bytes gives a Ten in ScSjis
C10_Witness ==
    /\ HashDone
    /\ ty = "ScSjis"
    /\ Len(password) = 18
    /\ password[1] = 35
    /\ hashv.t = "Ten"

\* whether the character after $ is a half-width katakana: U+FF61..U+FF9F,
\* in UTF-8 for Sc and as one Shift-JIS byte for ScSjis
IsHalfWidthKatakana(G, pw) ==
    IF G = "ScSjis" THEN pw[2] \in 161..223
    ELSE /\ pw[2] = 239
         /\ \/ pw[3] = 189 /\ pw[4] \in 161..191
            \/ pw[3] = 190 /\ pw[4] \in 128..159

\* C11: for a password of at least 12 bytes that starts with $, Sc and ScSjis
\* never give Error: they give Katakana(ScKatakanaHash(Sc15::hash(p))) when a
\* half-width katakana follows the $ and Fifteen(Sc15::hash(p)) otherwise, so
\* both variants carry the 90 bits of Sc15::hash(p).
C11_DollarIsFifteenOrKatakana ==
    HashDone /\ ty \in {"Sc", "ScSjis"}
             /\ Len(password) >= 12 /\ password[1] = 36 =>
        LET h == Sc15_hash(password)
        IN /\ hashv # Error
           /\ hashv = IF IsHalfWidthKatakana(ty, password)
                      THEN Katakana(ScKatakanaHash(h))
                      ELSE Fifteen(h)
           /\ (IF hashv.t = "Katakana" THEN hashv.h.h ELSE hashv.h) = h

\* $ and the last half-width katakana of Shift-JIS, 0xDF, give a Katakana
C11_Witness ==
    /\ HashDone
    /\ ty = "ScSjis"
    /\ Len(password) = 12
    /\ password[1] = 36
    /\ password[2] = 223
    /\ hashv.t = "Katakana"

\* C12: for a password that is not both at least 12 bytes long and starting
\* with $, Sc and ScSjis give what MonaNonescaping gives: below 12 raw bytes
\* Ten(FourchanNonescaping::hash(p)), from 12 bytes Twelve(Mona12Nonescaping::
\* hash(p)), and for # the result of the raw key; nothing is escaped.
C12_ScIsMonaNonescaping ==
    HashDone /\ ty \in {"Sc", "ScSjis"}
             /\ ~(Len(password) >= 12 /\ password[1] = 36) =>
        LET r == MonaRaw_try_hash(password)
        IN /\ hashv = MonaNonescaping_hash(password)
           /\ Len(password) < 12 =>
                hashv = Ten(FourchanNonescaping_hash(password))
           /\ Len(password) >= 12 /\ password[1] # 35 =>
                hashv = Twelve(Mona12Nonescaping_hash(password))
           /\ Len(password) >= 12 /\ password[1] = 35 =>
                hashv = IF IsSome(r) THEN Ten(Unwrap(r)) ELSE Error

\* twelve double quotes give a Twelve in Sc, and not the one of Mona, which
\* escapes them
C12_Witness ==
    /\ HashDone
    /\ ty = "Sc"
    /\ Len(password) = 12
    /\ password[1] = 34
    /\ hashv.t = "Twelve"
    /\ hashv # Mona_hash(password)

-----------------------------------------------------------------------------
(* MonaRaw::try_hash on one password.  The passwords are a first byte, 8   *)
(* pairs of characters and a salt.  The pairs are one pair everywhere but  *)
(* at two positions; the pairs are 00, 4a, 0g, Ff, then G0, 9:, @A; the    *)
(* first byte is # or a; the salts are none, then . ./ a! : z9 and !. and  *)
(* three bytes.  Three passwords are shorter than 17 bytes.                *)

NumPairs == 4
NumSalts == 6

RawPairVals ==
    << <<48, 48>>, <<52, 97>>, <<48, 103>>, <<70, 102>>, <<71, 48>>,
       <<57, 58>>, <<64, 65>> >>
RawPairPos == {1, 2, 5, 8}
RawHeads == {35, 97}
RawSaltVals ==
    << <<>>, <<46>>, <<46, 47>>, <<97, 33>>, <<58>>, <<122, 57>>, <<33, 46>>,
       <<46, 46, 46>> >>

RawPairs ==
    {Flatten([i \in 1..8 |-> IF i = pi THEN RawPairVals[a]
                             ELSE IF i = pj THEN RawPairVals[b]
                             ELSE RawPairVals[c]]) :
        a \in 1..NumPairs, b \in 1..NumPairs, c \in 1..NumPairs,
        pi \in RawPairPos, pj \in RawPairPos}

RawPasswords ==
    {<<h>> \o ps \o RawSaltVals[s] :
        h \in RawHeads, ps \in RawPairs, s \in 1..NumSalts}
    \cup {<<>>, <<35>>, Password(<<35>>, 52, 16)}

RawInit ==
    /\ ty = "MonaRaw"
    /\ password \in RawPasswords
    /\ stage = "raw"
    /\ decoded = None
    /\ enc = "utf8"
    /\ hashv = Error
    /\ text = <<>>
    /\ outs = GenNoOuts
    /\ dst = [bytes |-> <<>>, cap |-> 0]
    /\ expected = dst

TryHash ==
    /\ stage = "raw"
    /\ stage' = "raw_hashed"
    /\ decoded' = MonaRaw_try_hash(password)
    /\ UNCHANGED <<ty, enc, hashv, text, outs, password, dst, expected>>

RawNext == TryHash

SpecRaw == RawInit /\ [][RawNext]_vars

IsHexDigit(c) == c \in (48..57) \cup (65..70) \cup (97..102)

\* the alphabet ./0-9A-Za-z
IsSaltChar(c) == c \in (46..57) \cup (65..90) \cup (97..122)

\* C13: MonaRaw::try_hash(p) is None exactly when the length of p is not 17,
\* 18 or 19, or a byte at index 1..16 is not a hex digit, or a salt byte at
\* index 17 or 18 is outside ./0-9A-Za-z; otherwise it is Some.
C13_RawNoneIff ==
    stage = "raw_hashed" =>
        LET p == password
            bad == \/ Len(p) \notin {17, 18, 19}
                   \/ \E k \in 1..16 : ~IsHexDigit(p[k + 1])
                   \/ \E k \in 17..(Len(p) - 1) : ~IsSaltChar(p[k + 1])
        IN /\ decoded = None <=> bad
           /\ IsSome(decoded) <=> ~bad

\* the salt : is outside the alphabet: the result is None, although
\* decode_salt would fold it to A
C13_Witness ==
    /\ stage = "raw_hashed"
    /\ Len(password) = 18
    /\ \A k \in 1..16 : IsHexDigit(password[k + 1])
    /\ password[18] = 58
    /\ decoded = None

\* C14, as stated: MonaRaw::try_hash(p) is None for every password whose first
\* byte is not #.
C14_AsStated ==
    stage = "raw_hashed" /\ (Len(password) = 0 \/ password[1] # 35) =>
        decoded = None

\* what try_hash does with the byte at index 0: nothing, the result is that
\* of the same password with # in its place
C14_FirstByteIgnored ==
    stage = "raw_hashed" /\ Len(password) > 0 =>
        decoded = MonaRaw_try_hash([password EXCEPT ![1] = 35])

\* a password of 17 bytes that starts with the letter a gets a hash
C14_Witness ==
    /\ stage = "raw_hashed"
    /\ Len(password) = 17
    /\ password[1] = 97
    /\ IsSome(decoded)

\* the position of the first pair 00 of the 8 pairs, 0-based; 8 when none
FirstNullPair(p) ==
    LET nulls == {i \in 0..7 : p[2 * i + 2] = 48 /\ p[2 * i + 3] = 48}
    IN IF nulls = {} THEN 8 ELSE CHOOSE i \in nulls : \A j \in nulls : i <= j

\* p with the characters after its pair i, up to index 16, replaced by c
Refill(p, i, c) ==
    [k \in 1..Len(p) |-> IF k > 2 * i + 3 /\ k <= 17 THEN c ELSE p[k]]

\* C15: the hex pairs after the first pair that decodes to 0x00 do not affect
\* the result of MonaRaw::try_hash: when all the characters up to index 16 are
\* hex digits, the hash is that of the password with any other hex digits
\* after the null pair, among them 0, which gives zero key bytes; when one
\* of them is not a hex digit, the result is None.
C15_AfterNullIgnored ==
    stage = "raw_hashed" /\ Len(password) \in {17, 18, 19}
        /\ (\A k \in 17..(Len(password) - 1) : IsSaltChar(password[k + 1]))
        /\ FirstNullPair(password) < 8
        /\ (\A k \in 1..(2 * FirstNullPair(password)) :
                IsHexDigit(password[k + 1])) =>
        LET i == FirstNullPair(password)
        IN IF \A k \in 1..16 : IsHexDigit(password[k + 1])
           THEN /\ IsSome(decoded)
                /\ \A c \in {48, 57, 70, 98} :
                       decoded = MonaRaw_try_hash(Refill(password, i, c))
           ELSE decoded = None

\* #4a004a...: the second pair is null, the pairs after it are not, and the
\* hash is not the one of the key 4a 4a 4a ...
C15_Witness ==
    /\ stage = "raw_hashed"
    /\ Len(password) = 19
    /\ FirstNullPair(password) = 1
    /\ password[6] = 52
    /\ password[7] = 97
    /\ IsSome(decoded)
    /\ decoded # MonaRaw_try_hash([password EXCEPT ![4] = 52, ![5] = 97])

\* E4: the password with every " & < > replaced by &quot; &amp; &lt; &gt;
E4(pw) ==
    Flatten([i \in 1..Len(pw) |->
                CASE pw[i] = 34 -> <<38, 113, 117, 111, 116, 59>>
                  [] pw[i] = 38 -> <<38, 97, 109, 112, 59>>
                  [] pw[i] = 60 -> <<38, 108, 116, 59>>
                  [] pw[i] = 62 -> <<38, 103, 116, 59>>
                  [] OTHER -> <<pw[i]>>])

\* the key and the salt characters FourchanNonescaping::hash gives to the
\* cipher for the string e
NonescapingInputs(e) ==
    [key |-> secret_to_key(e),
     salt1 |-> IF Len(e) >= 2 THEN e[2] ELSE 72,
     salt2 |-> IF Len(e) >= 3 THEN e[3] ELSE IF Len(e) = 2 THEN 72 ELSE 46]

\* C16: the escaping DES generators compute the key and the salt, hence the
\* hash, of the non-escaping generator on the escaped string: Fourchan::hash(p)
\* is FourchanNonescaping::hash(E4(p)) and Mona10::hash(p) is
\* FourchanNonescaping::hash(E2(p)), also when an entity starts before and
\* ends after the eighth escaped byte.
C16_EscapingIsNonescapingOfEscaped ==
    HashDone /\ ty \in {"Fourchan", "Mona10"} =>
        LET e == IF ty = "Fourchan" THEN E4(password) ELSE E2(password)
            escaper == IF ty = "Fourchan" THEN "fourchan_escape"
                       ELSE "mona_escape"
        IN /\ hashv = FourchanNonescaping_hash(e)
           /\ des_cipher_escaped_inputs(password, escaper) = NonescapingInputs(e)

\* aaaaaaa&: the entity &amp; starts at the eighth byte and ends after it
C16_Witness ==
    /\ HashDone
    /\ ty = "Fourchan"
    /\ password = <<97, 97, 97, 97, 97, 97, 97, 38>>
    /\ Len(E4(password)) = 12
    /\ hashv = FourchanNonescaping_hash(E4(password))

\* C17: under Mona a password and its escaped form generate the same
\* tripcode: Mona::generate(p) is Mona::generate(E2(p)), with the same tag
\* and the same hash, also across the threshold of 12 bytes and for passwords
\* that start with # or $.
C17_EscapedFormSameTripcode ==
    HashDone /\ ty = "Mona" =>
        /\ hashv = Mona_hash(E2(password))
        /\ stage # "hashed" =>
             outs.generate = TripcodeGenerator_generate("Mona", E2(password))

\* abc"def is 7 bytes and 12 when escaped: a Twelve, as for abc&quot;def
C17_Witness ==
    /\ HashDone
    /\ ty = "Mona"
    /\ stage = "generated"
    /\ password = <<97, 98, 99, 34, 100, 101, 102>>
    /\ hashv.t = "Twelve"
    /\ Len(outs.generate) = 12
    /\ outs.generate = TripcodeGenerator_generate("Mona", E2(password))

-----------------------------------------------------------------------------
(* decode_salt and decode_salt_strict on one pair of salt characters:      *)
(* every byte together with each byte at the edges of the ranges of the    *)
(* alphabet ./0-9A-Za-z, in both orders.  `password` holds the pair,       *)
(* `hashv` the word decode_salt returns, `decoded` what decode_salt_strict *)
(* returns.                                                                *)

SaltEdges == {0, 45, 46, 47, 48, 57, 58, 64, 65, 90, 91, 96, 97, 122, 123, 255}

SaltPairs ==
    {<<c1, c2>> : c1 \in 0..255, c2 \in SaltEdges}
    \cup {<<c1, c2>> : c1 \in SaltEdges, c2 \in 0..255}

SaltInit ==
    /\ ty = "Des"
    /\ password \in SaltPairs
    /\ stage = "salt"
    /\ decoded = None
    /\ enc = "utf8"
    /\ hashv = Error
    /\ text = <<>>
    /\ outs = GenNoOuts
    /\ dst = [bytes |-> <<>>, cap |-> 0]
    /\ expected = dst

DecodeSalt ==
    /\ stage = "salt"
    /\ stage' = "salt_decoded"
    /\ hashv' = decode_salt(password[1], password[2])
    /\ UNCHANGED <<ty, enc, text, decoded, outs, password, dst, expected>>

DecodeSaltStrict ==
    /\ stage = "salt_decoded"
    /\ stage' = "salt_strict"
    /\ decoded' = decode_salt_strict(password[1], password[2])
    /\ UNCHANGED <<ty, enc, hashv, text, outs, password, dst, expected>>

SaltNext == DecodeSalt \/ DecodeSaltStrict

SpecSalt == SaltInit /\ [][SaltNext]_vars

\* the table in the documentation of struct Des: the character each byte is
\* reinterpreted as, row by row
DesFoldTable ==
    <<
       46, 46, 46, 46, 46, 46, 46, 46, 46, 46, 46, 46, 46, 46, 46, 46,
       46, 46, 46, 46, 46, 46, 46, 46, 46, 46, 46, 46, 46, 46, 46, 46,
       46, 46, 46, 46, 46, 46, 46, 46, 46, 46, 46, 46, 46, 46, 46, 47,
       48, 49, 50, 51, 52, 53, 54, 55, 56, 57, 65, 66, 67, 68, 69, 70,
       71, 65, 66, 67, 68, 69, 70, 71, 72, 73, 74, 75, 76, 77, 78, 79,
       80, 81, 82, 83, 84, 85, 86, 87, 88, 89, 90, 97, 98, 99, 100, 101,
       102, 97, 98, 99, 100, 101, 102, 103, 104, 105, 106, 107, 108, 109, 110, 111,
       112, 113, 114, 115, 116, 117, 118, 119, 120, 121, 122, 46, 46, 46, 46, 46,
       46, 46, 46, 46, 46, 46, 46, 46, 46, 46, 46, 46, 46, 46, 46, 46,
       46, 46, 46, 46, 46, 46, 46, 46, 46, 46, 46, 46, 46, 46, 46, 46,
       46, 46, 46, 46, 46, 46, 46, 46, 46, 46, 46, 46, 46, 46, 46, 46,
       46, 46, 46, 46, 46, 46, 46, 46, 46, 46, 46, 46, 46, 46, 46, 46,
       46, 46, 46, 46, 46, 46, 46, 46, 46, 46, 46, 46, 46, 46, 46, 46,
       46, 46, 46, 46, 46, 46, 46, 46, 46, 46, 46, 46, 46, 46, 46, 46,
       46, 46, 46, 46, 46, 46, 46, 46, 46, 46, 46, 46, 46, 46, 46, 46,
       46, 46, 46, 46, 46, 46, 46, 46, 46, 46, 46, 46, 46, 46, 46, 46 >>

\* the alphabet ./0-9A-Za-z in its order
SaltAlphabet ==
    <<46, 47>> \o [i \in 1..10 |-> 47 + i] \o [i \in 1..26 |-> 64 + i]
               \o [i \in 1..26 |-> 96 + i]

\* v(c): the index of the character the table assigns to the byte c
SaltIndex(c) ==
    (CHOOSE i \in 1..64 : SaltAlphabet[i] = DesFoldTable[c + 1]) - 1

\* bit k of a word, bit 0 being the lowest
BitOf(x, k) == x[Len(x) - k]

\* C18: decode_salt never rejects: for every pair of bytes it returns
\* (v(c1) << 26) | (v(c2) << 18), v(c) being the index in ./0-9A-Za-z of the
\* character the fold table of struct Des assigns to c; only the bits 18..23
\* and 26..31 of the 32-bit result can be set.
C18_DecodeSaltFolds ==
    stage \in {"salt_decoded", "salt_strict"} =>
        /\ Len(hashv) = 32
        /\ AsNat(SubSeq(hashv, 1, 6)) = SaltIndex(password[1])
        /\ AsNat(SubSeq(hashv, 9, 14)) = SaltIndex(password[2])
        /\ \A k \in 0..31 :
               BitOf(hashv, k) = 1 => k \in (18..23) \cup (26..31)
        /\ password[1] \in (0..46) \cup (123..255) => SaltIndex(password[1]) = 0
        /\ password[1] = 58 => SaltAlphabet[SaltIndex(58) + 1] = 65
        /\ password[1] = 64 => SaltAlphabet[SaltIndex(64) + 1] = 71
        /\ password[1] = 91 => SaltAlphabet[SaltIndex(91) + 1] = 97
        /\ password[1] = 96 => SaltAlphabet[SaltIndex(96) + 1] = 102

\* the pair : ` is folded to A f, the indexes 12 and 43
C18_Witness ==
    /\ stage = "salt_decoded"
    /\ password = <<58, 96>>
    /\ AsNat(SubSeq(hashv, 1, 6)) = 12
    /\ AsNat(SubSeq(hashv, 9, 14)) = 43

\* C19: decode_salt_strict(c1, c2) is Some exactly when both bytes are in
\* ./0-9A-Za-z, and then its value is decode_salt(c1, c2); when either byte is
\* outside the alphabet it is None.
C19_StrictIsSomeOnAlphabet ==
    stage = "salt_strict" =>
        IF IsSaltChar(password[1]) /\ IsSaltChar(password[2])
        THEN /\ IsSome(decoded)
             /\ Unwrap(decoded) = hashv
             /\ hashv = decode_salt(password[1], password[2])
        ELSE decoded = None

\* z and / are in the alphabet: Some, with the indexes 63 and 1
C19_Witness ==
    /\ stage = "salt_strict"
    /\ password = <<122, 47>>
    /\ IsSome(decoded)
    /\ AsNat(SubSeq(Unwrap(decoded), 1, 6)) = 63
    /\ AsNat(SubSeq(Unwrap(decoded), 9, 14)) = 1

-----------------------------------------------------------------------------
(* The decoders on malformed texts.                                        *)

\* every byte of the text is a character of the alphabet
AllIn(alphabet, t) ==
    \A k \in 1..Len(t) : \E i \in 1..64 : alphabet[i] = t[k]

SjisKatakanaAlphabet == [i \in 1..64 |-> ScSjisKatakana_encode(i - 1)]

\* the text from pos on is exactly n symbols of the UTF-8 katakana alphabet
RECURSIVE KanaSymbolsFrom(_, _, _)
KanaSymbolsFrom(t, pos, n) ==
    IF n = 0 THEN pos = Len(t) + 1
    ELSE \E i \in 0..63 :
            LET s == ScKatakana_encode(i)
            IN /\ pos + Len(s) - 1 <= Len(t)
               /\ SubSeq(t, pos, pos + Len(s) - 1) = s
               /\ KanaSymbolsFrom(t, pos + Len(s), n - 1)

\* the text has the length and the alphabet of the scheme
WellFormed(T, e, t) ==
    CASE T = "FourchanHash" -> Len(t) = 10 /\ AllIn(CryptAlphabet, t)
      [] T = "Mona12Hash" -> Len(t) = 12 /\ AllIn(Base64Alphabet, t)
      [] T = "Sc15Hash" -> Len(t) = 15 /\ AllIn(Sc15Alphabet, t)
      [] T = "ScKatakanaHash" ->
           IF e = "sjis" THEN Len(t) = 15 /\ AllIn(SjisKatakanaAlphabet, t)
           ELSE KanaSymbolsFrom(t, 1, 15)
      [] T = "MonaHash" ->
           \/ Len(t) = 3 /\ t = Question3
           \/ Len(t) = 10 /\ AllIn(CryptAlphabet, t)
           \/ Len(t) = 12 /\ AllIn(Base64Alphabet, t)
      [] T = "ScHash" ->
           \/ Len(t) = 3 /\ t = Question3
           \/ Len(t) = 10 /\ AllIn(CryptAlphabet, t)
           \/ Len(t) = 12 /\ AllIn(Base64Alphabet, t)
           \/ Len(t) = 15 /\ AllIn(Sc15Alphabet, t)
           \/ e = "sjis" /\ Len(t) = 15 /\ AllIn(SjisKatakanaAlphabet, t)
           \/ e = "utf8" /\ Len(t) >= 17 /\ KanaSymbolsFrom(t, 1, 15)

\* C20: every decoder returns None when the text has the wrong length for its
\* scheme (FourchanHash 10, Mona12Hash 12, Sc15Hash and Shift-JIS katakana 15,
\* UTF-8 katakana 15 symbols, MonaHash 3, 10 or 12, ScHash 3, 10, 12, 15 or at
\* least 17) or when one of its characters is outside the scheme's alphabet.
C20_MalformedIsNone ==
    stage = "text_dec" /\ ~WellFormed(ty, enc, text) => decoded = None

\* twelve characters, only the last of which is outside the base64 alphabet
C20_Witness ==
    /\ stage = "text_dec"
    /\ ty = "Mona12Hash"
    /\ Len(text) = 12
    /\ AllIn(Base64Alphabet, SubSeq(text, 1, 11))
    /\ ~AllIn(Base64Alphabet, <<text[12]>>)
    /\ decoded = None

-----------------------------------------------------------------------------
(* Panics: the indexes, slices and shifts of the entry points, each with   *)
(* the condition under which the code reaches it.  mona_internal and       *)
(* sc_internal give Panic themselves for as_ref[0] and the katakana tests. *)

\* des_cipher_escaped!: round i of the loop with j escaped bytes so far.  The
\* shifts 8*j and 8*(7-j) need j < 8, escaped[1] and escaped[2] are read at
\* j = 0, escaped[0] and escaped[1] at j = 1, escaped[0] at j = 2; the loop
\* breaks when j >= 8
RECURSIVE des_cipher_escaped_panics(_, _, _, _)
des_cipher_escaped_panics(pw, escaper, i, j) ==
    IF i > Len(pw) THEN FALSE
    ELSE LET escaped == escape(escaper, pw[i])
             here == IF escaped # <<>>
                     THEN \/ 8 * j >= 64
                          \/ j = 0 /\ Len(escaped) < 3
                          \/ j = 1 /\ Len(escaped) < 2
                     ELSE j > 7 \/ 8 * (7 - j) >= 64
             j2 == j + (IF escaped # <<>> THEN Len(escaped) ELSE 1)
         IN here \/ (j2 < 8 /\ des_cipher_escaped_panics(pw, escaper, i + 1, j2))

\* MonaRaw::try_hash: password[17] and password[18] by the length, then
\* password[2i+1], password[2i+2] and the slice password[(2i+1)..17] in the
\* loop, which only a length of 17, 18 or 19 reaches
MonaRaw_try_hash_panics(pw) ==
    CASE Len(pw) = 17 -> \E k \in 1..16 : ~InBounds(pw, k)
      [] Len(pw) = 18 -> \E k \in 1..17 : ~InBounds(pw, k)
      [] Len(pw) = 19 -> \E k \in 1..18 : ~InBounds(pw, k)
      [] OTHER -> FALSE

\* sha1_internal: the slices password[first..i] at the escaped bytes and
\* password[first..] after the loop; first is 0 or one more than the index of
\* the escaped byte before
sha1_internal_panics(pw, escape_flag) ==
    /\ escape_flag
    /\ LET firstAt(i) ==
               IF \E k \in EscapedFrom(pw, 0) : k < i
               THEN 1 + CHOOSE k \in EscapedFrom(pw, 0) :
                          /\ k < i
                          /\ \A l \in EscapedFrom(pw, 0) : l < i => l <= k
               ELSE 0
       IN \/ \E i \in EscapedFrom(pw, 0) : firstAt(i) > i \/ i > Len(pw)
          \/ firstAt(Len(pw)) > Len(pw)

\* the generators: what the hash method of G reaches for the password
TripcodeGenerator_hash_panics(G, pw) ==
    LET des(escaper) == des_cipher_escaped_panics(pw, escaper, 1, 0)
        \* FourchanNonescaping::hash: as_ref[1] from 2 bytes, as_ref[2] from 3
        nonescaping == \/ Len(pw) = 2 /\ ~InBounds(pw, 1)
                       \/ Len(pw) > 2 /\ (~InBounds(pw, 1) \/ ~InBounds(pw, 2))
        mona(flag, h, i) ==
            IF mona_internal_len(pw, flag) >= 12
            THEN \/ ~InBounds(pw, 0)
                 \/ InBounds(pw, 0) /\ pw[1] = 35 /\ MonaRaw_try_hash_panics(pw)
                 \/ InBounds(pw, 0) /\ pw[1] \notin {35, 36} /\ i
            ELSE h
        sc(katakana) ==
            IF Len(pw) >= 12
            THEN \/ ~InBounds(pw, 0)
                 \/ pw[1] = 35 /\ MonaRaw_try_hash_panics(pw)
                 \/ pw[1] = 36 /\ katakana_panics(katakana, pw)
            ELSE nonescaping
    IN CASE G = "Fourchan" -> des("fourchan_escape")
         [] G = "Mona10" -> des("mona_escape")
         [] G = "FourchanNonescaping" -> nonescaping
         [] G = "Mona12" -> sha1_internal_panics(pw, TRUE)
         [] G = "Mona" ->
              mona(TRUE, des("mona_escape"), sha1_internal_panics(pw, TRUE))
         [] G = "MonaNonescaping" -> mona(FALSE, nonescaping, FALSE)
         [] G = "Sc" -> sc("sc_password_starts_with_katakana")
         [] G = "ScSjis" -> sc("ScSjis")
         [] OTHER -> sha1_internal_panics(pw, FALSE)

\* the decoders: tripcode[9] in FourchanHash, tripcode[10] and tripcode[11]
\* in Mona12Hash, after the test of the length; the others read through
\* iterators, and the katakana tables have an entry for every byte
TripcodeHash_decode_panics(T, e, tripcode) ==
    LET ten == Len(tripcode) = 10 /\ ~InBounds(tripcode, 9)
        twelve == Len(tripcode) = 12
                    /\ (~InBounds(tripcode, 10) \/ ~InBounds(tripcode, 11))
    IN CASE T = "FourchanHash" -> ten
         [] T = "Mona12Hash" -> twelve
         [] T \in {"MonaHash", "ScHash"} -> ten \/ twelve
         [] OTHER -> \E k \in 1..Len(tripcode) : tripcode[k] \notin 0..255

\* Every entry point on its samples: the hash of the generators,
\* MonaRaw::try_hash, and the decoders on texts and on what encode wrote.
EntryInit == GenInit \/ RawInit \/ CodecInit

EntryNext ==
    \/ ty \in Generators /\ Hash
    \/ ty = "MonaRaw" /\ TryHash
    \/ ty \in HashTypes /\ (Encode \/ Decode)

SpecEntry == EntryInit /\ [][EntryNext]_vars

-----------------------------------------------------------------------------
\* (W << 1) & 0xFEFE_FEFE_FEFE_FEFE bit by bit, W the big-endian word of the
\* first 8 bytes of e: byte k of the key has the low 7 bits of e[k] in its
\* high 7 bits and a zero below them; a byte e does not have is zero
DesKeyOf(e) ==
    Tuple([i \in 1..64 |->
        LET k == (i \div 8) + 1
            b == i % 8
        IN IF b # 0 /\ k <= Len(e) THEN (e[k] \div Pow2(7 - b)) % 2 ELSE 0])

\* the escaped stream of the password under the DES generator G
EscapedFor(G, pw) ==
    CASE G = "Fourchan" -> E4(pw)
      [] G = "Mona10" -> E2(pw)
      [] OTHER -> pw

\* C22: the DES key is (W << 1) & 0xFEFE_FEFE_FEFE_FEFE, W the big-endian
\* word of the first 8 bytes of the escaped password, zero-padded on the
\* right; the bytes after the eighth never affect the hash: passwords whose
\* escaped streams have 8 bytes or more and agree on the first 8 get the same
\* hash from Fourchan, Mona10, FourchanNonescaping and Des::hash.
C22_KeyIsFirstEightBytes ==
    stage = "hashed" /\ ty \in {"Fourchan", "Mona10", "FourchanNonescaping"} =>
        LET e == EscapedFor(ty, password)
            key == IF ty = "Fourchan"
                   THEN des_cipher_escaped_inputs(password, "fourchan_escape").key
                   ELSE IF ty = "Mona10"
                   THEN des_cipher_escaped_inputs(password, "mona_escape").key
                   ELSE secret_to_key(password)
            others == SamplePasswords
                        \cup {password \o <<x>> : x \in {0, 38, 97, 255}}
        IN /\ key = DesKeyOf(e)
           /\ secret_to_key(e) = DesKeyOf(e)
           /\ Len(e) >= 8 =>
                /\ \A q \in others :
                     LET eq == EscapedFor(ty, q)
                     IN Len(eq) >= 8 /\ SubSeq(eq, 1, 8) = SubSeq(e, 1, 8)
                          => TripcodeGenerator_hash(ty, q) = hashv
                /\ \A s1, s2 \in {46, 72, 97} :
                     Des_hash(e, s1, s2) = Des_hash(SubSeq(e, 1, 8), s1, s2)

\* aaaaaaa& under Fourchan: the escaped stream aaaaaaa&amp; has 12 bytes, and
\* the hash is that of the password followed by another &, and that of
\* FourchanNonescaping for the 8 bytes aaaaaaa&
C22_Witness ==
    /\ HashDone
    /\ ty = "Fourchan"
    /\ password = <<97, 97, 97, 97, 97, 97, 97, 38>>
    /\ Len(E4(password)) = 12
    /\ hashv = Fourchan_hash(password \o <<38>>)
    /\ hashv = FourchanNonescaping_hash(password)
    /\ des_cipher_escaped_inputs(password, "fourchan_escape").key
         = DesKeyOf(password)

-----------------------------------------------------------------------------
\* the key and the two salt characters the DES generator G gives to the
\* cipher for the password
DesInputs(G, pw) ==
    CASE G = "Fourchan" -> des_cipher_escaped_inputs(pw, "fourchan_escape")
      [] G = "Mona10" -> des_cipher_escaped_inputs(pw, "mona_escape")
      [] OTHER -> NonescapingInputs(pw)

DesGenerators == {"Fourchan", "Mona10", "FourchanNonescaping"}

\* C23 as stated: for an escaped password of 3 bytes or more the two salt
\* characters are the first two bytes of the escaped password.
C23_AsStated ==
    stage = "hashed" /\ ty \in DesGenerators =>
        LET e == EscapedFor(ty, password)
            in == DesInputs(ty, password)
        IN Len(e) >= 3 => in.salt1 = e[1] /\ in.salt2 = e[2]

\* C23, amended: in the DES generators, for an escaped password of 3 bytes or
\* more, the two salt characters passed to decode_salt are the second and the
\* third byte of the escaped password.
C23_SaltIsSecondAndThird ==
    stage = "hashed" /\ ty \in DesGenerators =>
        LET e == EscapedFor(ty, password)
            in == DesInputs(ty, password)
        IN Len(e) >= 3 =>
             /\ in.salt1 = e[2]
             /\ in.salt2 = e[3]
             /\ hashv = FourchanHash(zero_cipher_58(in.key,
                                         decode_salt(e[2], e[3])))

\* & under Fourchan: the escaped password is &amp; and the salt is am
C23_Witness ==
    /\ HashDone
    /\ ty = "Fourchan"
    /\ password = <<38>>
    /\ EscapedFor(ty, password) = <<38, 97, 109, 112, 59>>
    /\ DesInputs(ty, password).salt1 = 97
    /\ DesInputs(ty, password).salt2 = 109
    /\ hashv = Des_hash(<<38, 97, 109, 112, 59>>, 97, 109)

\* C24 as stated: an escaped password of fewer than 2 bytes has the salt
\* characters H and ., and one of exactly 2 bytes has the second salt
\* character '.'.
C24_AsStated ==
    stage = "hashed" /\ ty \in DesGenerators =>
        LET e == EscapedFor(ty, password)
            in == DesInputs(ty, password)
        IN /\ Len(e) < 2 => in.salt1 = 72 /\ in.salt2 = 46
           /\ Len(e) = 2 => in.salt2 = 46

\* C24, amended: in the DES generators an escaped password of fewer than 2
\* bytes has the salt characters H and ., and one of exactly 2 bytes has its
\* second byte as the first salt character and H as the second.
C24_ShortSalt ==
    stage = "hashed" /\ ty \in DesGenerators =>
        LET e == EscapedFor(ty, password)
            in == DesInputs(ty, password)
        IN /\ Len(e) < 2 =>
                /\ in.salt1 = 72
                /\ in.salt2 = 46
                /\ hashv = Des_hash(e, 72, 46)
           /\ Len(e) = 2 =>
                /\ in.salt1 = e[2]
                /\ in.salt2 = 72
                /\ hashv = Des_hash(e, e[2], 72)

\* a& under Mona10, which leaves & alone: 2 bytes, the salt is &H
C24_Witness ==
    /\ HashDone
    /\ ty = "Mona10"
    /\ password = <<97, 38>>
    /\ EscapedFor(ty, password) = password
    /\ DesInputs(ty, password).salt1 = 38
    /\ DesInputs(ty, password).salt2 = 72
    /\ hashv = Des_hash(password, 38, 72)

-----------------------------------------------------------------------------
\* C25: in sha1_internal with escape = true the byte runs fed to the digest,
\* one after the other, are the escaped password E2(p), nothing fed twice and
\* nothing skipped; hence Mona12::hash(p) is Mona12Nonescaping::hash(E2(p)).
C25_FeedIsEscapedPassword ==
    stage = "hashed" /\ ty = "Mona12" =>
        /\ Tuple(sha1_internal_feed(password, 0, 0, Sha1_new)) = E2(password)
        /\ sha1_internal(password, TRUE) = sha1_internal(E2(password), FALSE)
        /\ hashv = Mona12Nonescaping_hash(E2(password))

\* abc"def: the run abc, the entity and the run def make abc&quot;def
C25_Witness ==
    /\ HashDone
    /\ ty = "Mona12"
    /\ password = <<97, 98, 99, 34, 100, 101, 102>>
    /\ Tuple(sha1_internal_feed(password, 0, 0, Sha1_new))
         = <<97, 98, 99, 38, 113, 117, 111, 116, 59, 100, 101, 102>>
    /\ hashv = Mona12Nonescaping_hash(E2(password))
    /\ hashv # Mona12Nonescaping_hash(password)

-----------------------------------------------------------------------------
\* bit i of the digest, numbered from 1 at the most significant bit of byte 0
DigestBit(d, i) == (d[((i - 1) \div 8) + 1] \div Pow2(7 - ((i - 1) % 8))) % 2

\* the 6 bits of the digest from bit i on, as a number
DigestGroup(d, i) ==
    32 * DigestBit(d, i) + 16 * DigestBit(d, i + 1) + 8 * DigestBit(d, i + 2)
      + 4 * DigestBit(d, i + 3) + 2 * DigestBit(d, i + 4) + DigestBit(d, i + 5)

\* the digest sha1_internal hands to the closure of generator G
DigestFor(G, pw) == sha1_internal(pw, G = "Mona12")

\* C26: Mona12::hash and Mona12Nonescaping::hash return Mona12Hash(w, b), w
\* the digest bytes 0..7 as a big-endian word and b the digest byte 8, that
\* is the first 72 bits of the digest as they are; the 12 encoded characters
\* are the twelve consecutive 6-bit groups of these 72 bits, the most
\* significant first.
C26_FirstSeventyTwoBits ==
    stage = "hashed" /\ ty \in {"Mona12", "Mona12Nonescaping"} =>
        LET d == DigestFor(ty, password)
            t == TripcodeHash_encode("Mona12Hash", hashv)
        IN /\ hashv.t = "Mona12Hash"
           /\ Len(hashv.a) = 64
           /\ Len(hashv.b) = 8
           /\ \A i \in 1..64 : hashv.a[i] = DigestBit(d, i)
           /\ \A i \in 1..8 : hashv.b[i] = DigestBit(d, 64 + i)
           /\ Len(t) = 12
           /\ \A k \in 1..12 :
                t[k] = Base64_encode(DigestGroup(d, 6 * (k - 1) + 1))

\* a digest whose byte 8 starts with a 1: the eleventh character has the low
\* 4 bits of the word and the high 2 bits of the byte
C26_Witness ==
    /\ HashDone
    /\ ty = "Mona12Nonescaping"
    /\ Len(password) >= 12
    /\ DigestBit(DigestFor(ty, password), 65) = 1
    /\ DigestBit(DigestFor(ty, password), 61) = 1
    /\ hashv.b[1] = 1
    /\ TripcodeHash_encode("Mona12Hash", hashv)[11]
         = Base64_encode(DigestGroup(DigestFor(ty, password), 61))
    /\ DigestGroup(DigestFor(ty, password), 61) >= 34

-----------------------------------------------------------------------------
\* C27: Sc15::hash returns Sc15Hash(a, b) where the top 60 bits of a are the
\* digest bits 19..78 and the top 30 bits of b the digest bits 79..108 (bit 1
\* is the most significant bit of digest byte 0): the fifteen 6-bit groups
\* that are encoded are the window 19..108 of the digest, with no bit dropped
\* or repeated where the two words meet.
C27_WindowNineteenToHundredEight ==
    stage = "hashed" /\ ty = "Sc15" =>
        LET d == sha1_internal(password, FALSE)
            t == TripcodeHash_encode("Sc15Hash", hashv)
        IN /\ hashv.t = "Sc15Hash"
           /\ Len(hashv.a) = 64
           /\ Len(hashv.b) = 32
           /\ \A i \in 1..60 : hashv.a[i] = DigestBit(d, 18 + i)
           /\ \A i \in 1..30 : hashv.b[i] = DigestBit(d, 78 + i)
           /\ Len(t) = 15
           /\ \A k \in 1..15 :
                t[k] = Sc15_encode(DigestGroup(d, 19 + 6 * (k - 1)))

\* a digest whose bits 78 and 79, the last of the first word and the first of
\* the second, differ
C27_Witness ==
    /\ HashDone
    /\ ty = "Sc15"
    /\ DigestBit(sha1_internal(password, FALSE), 78) = 1
    /\ DigestBit(sha1_internal(password, FALSE), 79) = 0
    /\ hashv.a[60] = 1
    /\ hashv.b[1] = 0
    /\ TripcodeHash_encode("Sc15Hash", hashv)[11]
         = Sc15_encode(DigestGroup(sha1_internal(password, FALSE), 79))

-----------------------------------------------------------------------------
\* the word x with its low n bits replaced by the number v
WithLow(x, n, v) ==
    Tuple([i \in 1..Len(x) |->
        IF i <= Len(x) - n THEN x[i] ELSE FromNat(v, n)[i - (Len(x) - n)]])

\* the hash h of type T with the low n bits of its 64-bit word replaced by v
\* and the low 2 bits of its 32-bit word, if it has one, by w
Repadded(T, h, n, v, w) ==
    CASE T = "FourchanHash" -> FourchanHash(WithLow(h.a, n, v))
      [] T = "Sc15Hash" -> Sc15Hash(WithLow(h.a, n, v), WithLow(h.b, 2, w))
      [] OTHER ->
           ScKatakanaHash(Sc15Hash(WithLow(h.h.a, n, v), WithLow(h.h.b, 2, w)))

\* C28 as stated: encoding never reads the padding bits: two FourchanHash
\* values that agree on their top 58 bits and differ only in the low 6 bits
\* encode to the same 10 characters, and two Sc15Hash or ScKatakanaHash
\* values that differ only in padding bits encode to the same text.
C28_AsStated ==
    stage = "hash_enc" =>
        /\ ty = "FourchanHash" =>
             \A v \in 0..63 :
                 TripcodeHash_encode(ty, Repadded(ty, hashv, 6, v, 0))
                   = outs.encode
        /\ ty \in {"Sc15Hash", "ScKatakanaHash"} =>
             \A p \in {<<0, 0>>, <<5, 1>>, <<15, 3>>} :
                 TripcodeHash_encode(ty, Repadded(ty, hashv, 4, p[1], p[2]))
                   = outs.encode

\* C28, what the code does: the ten characters of a FourchanHash are its top
\* 60 bits, so that only the low 4 bits are never read; the text of a
\* Sc15Hash or ScKatakanaHash does not depend on the low 4 bits of the 64-bit
\* word nor on the low 2 bits of the 32-bit word.
C28_TopSixtyBits ==
    stage = "hash_enc" =>
        /\ ty = "FourchanHash" =>
             \A v \in 0..15 :
                 TripcodeHash_encode(ty, Repadded(ty, hashv, 4, v, 0))
                   = outs.encode
        /\ ty \in {"Sc15Hash", "ScKatakanaHash"} =>
             \A p \in {<<0, 0>>, <<5, 1>>, <<15, 3>>} :
                 /\ TripcodeHash_encode(ty, Repadded(ty, hashv, 4, p[1], p[2]))
                      = outs.encode
                 /\ ty = "ScKatakanaHash" =>
                      TripcodeHash_encode_to_sjis(ty,
                          Repadded(ty, hashv, 4, p[1], p[2]))
                        = outs.encode_to_sjis

\* a FourchanHash whose bits 59 and 60 are zero and whose padding is not:
\* with 1 in bit 60 the tenth character is another one, with any low 4 bits
\* it is the same
C28_Witness ==
    /\ stage = "hash_enc"
    /\ ty = "FourchanHash"
    /\ hashv.a[59] = 0
    /\ hashv.a[60] = 0
    /\ hashv.a[63] = 1
    /\ TripcodeHash_encode(ty, Repadded(ty, hashv, 4, 0, 0)) = outs.encode
    /\ TripcodeHash_encode(ty, Repadded(ty, hashv, 6, 16, 0))[10]
         # outs.encode[10]

-----------------------------------------------------------------------------
\* the low n bits of the word x are zero
LowZero(x, n) == \A i \in (Len(x) - n + 1)..Len(x) : x[i] = 0

\* a 90-bit hash with 60 + 30 significant bits
Padded90(h) == Len(h.a) = 64 /\ Len(h.b) = 32 /\ LowZero(h.a, 4) /\ LowZero(h.b, 2)

\* the 90-bit hash inside the value v, if it has one, is padded with zeros,
\* and so are the low 4 bits of the FourchanHash inside it when fourchan asks
\* for it
PaddingIsZero(v, fourchan) ==
    CASE v.t = "Sc15Hash" -> Padded90(v)
      [] v.t = "ScKatakanaHash" -> Padded90(v.h)
      [] v.t = "Fifteen" -> Padded90(v.h)
      [] v.t = "Katakana" -> Padded90(v.h.h)
      [] v.t = "FourchanHash" -> fourchan => LowZero(v.a, 4)
      [] v.t = "Ten" -> fourchan => LowZero(v.h.a, 4)
      [] OTHER -> TRUE

\* C29: every 90-bit hash value the program produces, returned by Sc15::hash
\* or ScKatakana::hash for any password or by the decode and decode_from_sjis
\* of Sc15Hash and ScKatakanaHash for any accepted text, has the low 4 bits of
\* its 64-bit word and the low 2 bits of its 32-bit word zero, and every
\* FourchanHash returned by decode has its low 4 bits zero.
C29_PaddingIsZero ==
    /\ ty \in Generators /\ stage = "hashed" => PaddingIsZero(hashv, FALSE)
    /\ ty \in HashTypes /\ stage \in {"text_dec", "hash_enc_dec"}
         /\ IsSome(decoded) => PaddingIsZero(Unwrap(decoded), TRUE)

\* ScKatakanaHash::decode_from_sjis has accepted a text whose tenth and
\* fifteenth symbols stand for odd numbers: the lowest significant bit of
\* each word is 1 and the bits below it are 0
C29_Witness ==
    /\ ty = "ScKatakanaHash"
    /\ enc = "sjis"
    /\ stage = "text_dec"
    /\ IsSome(decoded)
    /\ Unwrap(decoded).h.a[60] = 1
    /\ Unwrap(decoded).h.b[30] = 1
    /\ Padded90(Unwrap(decoded).h)

-----------------------------------------------------------------------------
(* sc_password_starts_with_katakana on byte strings of 4 bytes and more,   *)
(* next to ScKatakanaHash::decode on the same three bytes.                 *)

KanaFirstVals == {36, 97, 239}
KanaLeadVals == {36, 33, 238, 239}
KanaSecondVals == {97, 188, 189, 190, 191}
KanaThirdVals == {0, 127, 128, 159, 160, 161, 177, 191, 192, 255}
\* nothing, a letter, a katakana
KanaTails == {<<>>, <<97>>, <<239, 189, 177>>}

KanaPasswords ==
    {<<f, a, b, c>> \o t : f \in KanaFirstVals, a \in KanaLeadVals,
                           b \in KanaSecondVals, c \in KanaThirdVals,
                           t \in KanaTails}

\* 15 times the three bytes after the first byte of the password
KanaTextOf(pw) == Flatten([i \in 1..15 |-> SubSeq(pw, 2, 4)])

KanaInit ==
    /\ ty = "ScKatakanaHash"
    /\ password \in KanaPasswords
    /\ text = KanaTextOf(password)
    /\ stage = "kana"
    /\ enc = "utf8"
    /\ hashv = Error
    /\ decoded = None
    /\ outs = NoOuts
    /\ dst = Vec_with_capacity(0)
    /\ expected = <<>>

\* sc_password_starts_with_katakana(password)
StartsWithKatakana ==
    /\ stage = "kana"
    /\ ~sc_password_starts_with_katakana_panics(password)
    /\ stage' = "kana_tested"
    /\ hashv' = sc_password_starts_with_katakana(password)
    /\ UNCHANGED <<ty, enc, text, decoded, outs, password, dst, expected>>

\* ScKatakanaHash::decode(text)
DecodeKatakana ==
    /\ stage = "kana_tested"
    /\ stage' = "kana_decoded"
    /\ decoded' = ScKatakanaHash_decode(text)
    /\ UNCHANGED <<ty, enc, hashv, text, outs, password, dst, expected>>

KanaNext == StartsWithKatakana \/ DecodeKatakana

SpecKana == KanaInit /\ [][KanaNext]_vars

\* the code point a well-formed three-byte UTF-8 sequence stands for, -1 for
\* other bytes
Utf8Three(a, b, c) ==
    IF a \in 224..239 /\ b \in 128..191 /\ c \in 128..191
    THEN (a - 224) * 4096 + (b - 128) * 64 + (c - 128)
    ELSE -1

\* U+FF61..U+FF9F
HalfWidthKatakana == 65377..65439

\* C30: for every byte string of 4 bytes or more,
\* sc_password_starts_with_katakana is true exactly when the bytes 1..3 are
\* the UTF-8 encoding of a code point in U+FF61..U+FF9F: false for U+FF60, for
\* U+FFA0 and for a katakana that does not follow the first byte at once; and
\* these are exactly the three-byte symbols ScKatakanaHash::decode accepts.
C30_KatakanaIsFF61ToFF9F ==
    /\ stage \in {"kana_tested", "kana_decoded"} =>
         hashv = (Utf8Three(password[2], password[3], password[4])
                    \in HalfWidthKatakana)
    /\ stage = "kana_decoded" => hashv = IsSome(decoded)

\* U+FF9F, the last katakana, is one for both; so is it with U+FF60 and
\* U+FFA0 around it, which are none
C30_Witness ==
    /\ stage = "kana_decoded"
    /\ SubSeq(password, 2, 4) = <<239, 190, 159>>
    /\ hashv = TRUE
    /\ IsSome(decoded)
    /\ ~sc_password_starts_with_katakana(<<36, 239, 189, 160>>)
    /\ ~sc_password_starts_with_katakana(<<36, 239, 190, 160>>)
    /\ ~sc_password_starts_with_katakana(<<36, 97, 239, 189, 177>>)

=============================================================================
